---- MODULE Spec2Model ----
(***************************************************************************)
(* A model of the fbuild core: the pickle-backed memoization store         *)
(* (lib/fbuild/db/pickle_backend.py), its on-disk commit protocol, the     *)
(* console log (lib/fbuild/console.py), the cached-call engine and the     *)
(* scheduler's map_with_dependencies primitive.                            *)
(***************************************************************************)
EXTENDS Integers, Sequences, FiniteSets, TLC

VARIABLES
    db,        \* the six relations of PickleBackend (one record, one field each)
    last,      \* the store operation that ran last, with its arguments and its return value
    nops,      \* number of mutating store operations run so far
    disk,      \* the files <path>, <path>.tmp and <path>.old
    pcSave,    \* how far PickleBackend.save has got
    proc,      \* the build process: up, down (killed), loaded, failed (load raised)
    saving,    \* the bytes the running save serialized
    before,    \* what <path> held when the running save began
    stale,     \* whether <path>.old was there when the running save began
    count,     \* fbuild.scheduler.count, the number of worker threads
    maxlen,    \* Log.maxlen: the column the labels of check are padded to
    stdout,    \* what sys.stdout received, in order
    logfile,   \* what Log.logfile received, in order
    lock,      \* Log._lock, a reentrant lock: its owner and its depth
    stacks,    \* Log._thread_stacks: per thread, a stack of message buffers
    code,      \* per thread, the statements left to run of the Log call it is in
    nmsg,      \* per thread, the number of messages it has written so far
    nflush,    \* per thread, the number of log_from_thread scopes it has left
    depfn,     \* map_with_dependencies: what depfn answers for each input
    inputs,    \* map_with_dependencies: the initial inputs
    task,      \* per input, how far its depfn task and its workerfn task have got
    deps,      \* per input, the prerequisites depfn returned for it
    clock,     \* a logical clock of the workerfn starts and completions
    tstart,    \* per input, the time workerfn began for it (0: not yet)
    tend,      \* per input, the time workerfn completed for it (0: not yet)
    outcome,   \* of the map_with_dependencies call: running, returned, cycle or raised
    failure,   \* the input whose task raised first (none while no task has raised)
    report,    \* the inputs the error of the call names
    caller,    \* _Linker.run: mapping, linking (the link command runs) or raised
    loc,       \* per worker thread, the store operation it is inside and its locals
    ndone,     \* per worker thread, the number of store operations it has completed
    fs,        \* the files of the build: whether each exists, its content digest, its mtime
    run,       \* the phase of the two-run build: off, first, saved, second
    plan,      \* the cached calls of the first run, each with the result it returned
    second,    \* for each cached call of the second run: did the body run, what was returned
    items,     \* map: the input items, in order
    mtask,     \* map: per position, how far the task of that item has got
    slot,      \* map: per position, the slot for the future result
    order,     \* map: the positions in the order their tasks completed
    mret       \* map: what the call gave its caller (nothing yet, the results, or a failure)

storeVars == <<db, last, nops>>

diskVars == <<disk, pcSave, proc, saving, before, stale>>

logVars == <<count, stdout, logfile, lock, stacks, code, nmsg, nflush, maxlen>>

schedVars == <<depfn, inputs, task, deps, clock, tstart, tend, outcome,
               failure, report, caller>>

concVars == <<loc, ndone>>

buildVars == <<fs, run, plan, second>>

mapVars == <<items, mtask, slot, order, mret>>

vars == <<maxlen, db, last, nops, disk, pcSave, proc, saving, before, stale,
          count, stdout, logfile, lock, stacks, code, nmsg, nflush,
          depfn, inputs, task, deps, clock, tstart, tend, outcome,
          failure, report, caller,
          loc, ndone, fs, run, plan, second,
          items, mtask, slot, order, mret>>

\* what the store operations, the commit steps, the log calls and the
\* scheduler leave alone
notStore == <<diskVars, logVars, schedVars, concVars, buildVars, mapVars>>

notDisk == <<logVars, schedVars, concVars, buildVars, mapVars>>

notLog == <<storeVars, diskVars, schedVars, concVars, buildVars, mapVars>>

notSched == <<storeVars, diskVars, logVars, concVars, buildVars, mapVars>>

notConc == <<last, nops, diskVars, logVars, schedVars, buildVars, mapVars>>

notBuild == <<last, nops, pcSave, proc, saving, before, stale, logVars, schedVars, concVars,
              mapVars>>

notMap == <<storeVars, diskVars, logVars, schedVars, concVars, buildVars>>

(***************************************************************************)
(* Universe of the inputs.                                                 *)
(***************************************************************************)
FunNames == {"f", "g"}
BoundArgs == {"b1", "b2"}
Results == {"r1", "r2"}
Digests == {"d1", "d2"}
Paths == {"p", "q"}
Mtimes == {1, 2}

\* the longest call list the model lets a function grow
MaxCalls == 2
\* the number of mutating store operations of one run of Spec
MaxOps == 3
\* the number of mutating store operations of one run of SpecCalls
MaxCallOps == 4
\* the number of mutating store operations of one run of SpecDisk
MaxDiskOps == 3
\* the number of messages one thread writes in a run of SpecLog
MaxMsgs == 2
\* the number of log_from_thread scopes one thread enters in a run of SpecLog
MaxScopes == 2
\* the size of the scheduler's worker pool
NWorkers == 2
\* the number of store operations one worker thread runs in SpecConc
MaxConcOps == 2
\* the number of cached calls of one run of the build in SpecBuild
MaxBuildCalls == 3
\* the number of store operations of a run of SpecFiles
MaxFileOps == 5
\* mutating operations before and between the saves of a round trip
MaxRoundOps == 4

\* Python's None, as a call id and as a value
NoId == -1
None == "none"

CallIds == 0 .. (MaxCalls - 1)

(***************************************************************************)
(* Python dict helpers: a dict is a function whose DOMAIN is its key set.  *)
(***************************************************************************)
EmptyDict == [x \in {} |-> None]

Put(m, k, v) == [x \in (DOMAIN m) \cup {k} |-> IF x = k THEN v ELSE m[x]]

Del(m, k) == [x \in (DOMAIN m) \ {k} |-> m[x]]

Has(m, k) == k \in DOMAIN m

\* dict.setdefault(k, {}) followed by a read of the entry
GetOrEmpty(m, k) == IF Has(m, k) THEN m[k] ELSE EmptyDict

(***************************************************************************)
(* PickleBackend.__init__: six empty relations.                            *)
(***************************************************************************)
EmptyDb ==
    [ _functions      |-> EmptyDict,
      _function_calls |-> EmptyDict,
      _files          |-> EmptyDict,
      _call_files     |-> EmptyDict,
      _external_srcs  |-> EmptyDict,
      _external_dsts  |-> EmptyDict ]

(***************************************************************************)
(* The store's queries and updates, as functions of the store value s.     *)
(***************************************************************************)
find_function(s, fun_name) ==
    IF Has(s._functions, fun_name) THEN s._functions[fun_name] ELSE None

\* the loop of delete_function over _call_files: drop fun_name from every
\* file's entry, then drop the files whose entry became empty
purge_call_files(cf, fun_name) ==
    LET stripped == [k \in DOMAIN cf |-> Del(cf[k], fun_name)]
        remove_keys == {k \in DOMAIN cf : DOMAIN stripped[k] = {}}
    IN  [k \in (DOMAIN cf) \ remove_keys |-> stripped[k]]

delete_function_keepfiles(s, fun_name) ==
    [s EXCEPT !._functions = Del(@, fun_name),
              !._function_calls = Del(@, fun_name),
              !._external_srcs = Del(@, fun_name),
              !._external_dsts = Del(@, fun_name)]

delete_function(s, fun_name) ==
    [s EXCEPT !._functions = Del(@, fun_name),
              !._function_calls = Del(@, fun_name),
              !._external_srcs = Del(@, fun_name),
              !._external_dsts = Del(@, fun_name),
              !._call_files = purge_call_files(@, fun_name)]

save_function(s, fun_name, fun_digest) ==
    LET t == delete_function(s, fun_name)
    IN  [t EXCEPT !._functions = Put(@, fun_name, fun_digest)]

\* positions (1-based) of the pairs of datas whose bound arguments equal bound
Matches(datas, bound) == {k \in 1 .. Len(datas) : datas[k][1] = bound}

Lowest(S) == CHOOSE k \in S : \A j \in S : k <= j

Highest(S) == CHOOSE k \in S : \A j \in S : k >= j

find_call_lastmatch(s, function, bound) ==
    IF ~Has(s._function_calls, function) THEN <<NoId, None>>
    ELSE LET datas == s._function_calls[function]
             hits == Matches(datas, bound)
         IN  IF hits = {} THEN <<NoId, None>>
             ELSE <<Highest(hits) - 1, datas[Highest(hits)][2]>>

\* enumerate(datas) is 0-based: the first match wins
find_call(s, function, bound) ==
    IF ~Has(s._function_calls, function) THEN <<NoId, None>>
    ELSE LET datas == s._function_calls[function]
             hits == Matches(datas, bound)
         IN  IF hits = {} THEN <<NoId, None>>
             ELSE <<Lowest(hits) - 1, datas[Lowest(hits)][2]>>

\* save_call returns the new store, the returned id and whether it raised
\* (datas[call_id] = ... with call_id past the end is an IndexError)
save_call_trustid(s, fun_name, call_id, bound, result) ==
    IF ~Has(s._function_calls, fun_name)
    THEN [store |-> [s EXCEPT !._function_calls = Put(@, fun_name, <<<<bound, result>>>>)],
          ret |-> IF call_id = NoId THEN 0 ELSE call_id, raised |-> FALSE]
    ELSE LET datas == s._function_calls[fun_name]
         IN  IF call_id = NoId
             THEN [store |-> [s EXCEPT !._function_calls[fun_name] = Append(datas, <<bound, result>>)],
                   ret |-> Len(datas), raised |-> FALSE]
             ELSE IF call_id + 1 > Len(datas)
                  THEN [store |-> s, ret |-> NoId, raised |-> TRUE]
                  ELSE [store |-> [s EXCEPT !._function_calls[fun_name][call_id + 1] = <<bound, result>>],
                        ret |-> call_id, raised |-> FALSE]

save_call_prepend(s, fun_name, call_id, bound, result) ==
    IF ~Has(s._function_calls, fun_name)
    THEN [store |-> [s EXCEPT !._function_calls = Put(@, fun_name, <<<<bound, result>>>>)],
          ret |-> 0, raised |-> FALSE]
    ELSE LET datas == s._function_calls[fun_name]
         IN  IF call_id = NoId
             THEN [store |-> [s EXCEPT !._function_calls[fun_name] = <<<<bound, result>>>> \o datas],
                   ret |-> 0, raised |-> FALSE]
             ELSE IF call_id + 1 > Len(datas)
                  THEN [store |-> s, ret |-> NoId, raised |-> TRUE]
                  ELSE [store |-> [s EXCEPT !._function_calls[fun_name][call_id + 1] = <<bound, result>>],
                        ret |-> call_id, raised |-> FALSE]

save_call(s, fun_name, call_id, bound, result) ==
    IF ~Has(s._function_calls, fun_name)
    THEN [store |-> [s EXCEPT !._function_calls = Put(@, fun_name, <<<<bound, result>>>>)],
          ret |-> 0, raised |-> FALSE]
    ELSE LET datas == s._function_calls[fun_name]
         IN  IF call_id = NoId
             THEN [store |-> [s EXCEPT !._function_calls[fun_name] = Append(datas, <<bound, result>>)],
                   ret |-> Len(datas), raised |-> FALSE]
             ELSE IF call_id + 1 > Len(datas)
                  THEN [store |-> s, ret |-> NoId, raised |-> TRUE]
                  ELSE [store |-> [s EXCEPT !._function_calls[fun_name][call_id + 1] = <<bound, result>>],
                        ret |-> call_id, raised |-> FALSE]

find_call_file(s, call_id, fun_name, file_name) ==
    IF /\ Has(s._call_files, file_name)
       /\ Has(s._call_files[file_name], fun_name)
       /\ Has(s._call_files[file_name][fun_name], call_id)
    THEN s._call_files[file_name][fun_name][call_id]
    ELSE None

save_call_file_keep(s, call_id, fun_name, file_name, digest) ==
    IF find_call_file(s, call_id, fun_name, file_name) # None THEN s
    ELSE LET byfile == GetOrEmpty(s._call_files, file_name)
             bycall == GetOrEmpty(byfile, fun_name)
         IN  [s EXCEPT !._call_files = Put(@, file_name, Put(byfile, fun_name, Put(bycall, call_id, digest)))]

save_call_file(s, call_id, fun_name, file_name, digest) ==
    LET byfile == GetOrEmpty(s._call_files, file_name)
        byfun == GetOrEmpty(byfile, fun_name)
    IN  [s EXCEPT !._call_files =
            Put(@, file_name, Put(byfile, fun_name, Put(byfun, call_id, digest)))]

find_external_srcs_none(s, call_id, fun_name) == {}

find_external_srcs(s, call_id, fun_name) ==
    IF Has(s._external_srcs, fun_name) /\ Has(s._external_srcs[fun_name], call_id)
    THEN s._external_srcs[fun_name][call_id]
    ELSE {}

find_external_dsts(s, call_id, fun_name) ==
    IF Has(s._external_dsts, fun_name) /\ Has(s._external_dsts[fun_name], call_id)
    THEN s._external_dsts[fun_name][call_id]
    ELSE {}

\* Backend.save_call_files: save_call_file for each (path, digest) of digests;
\* digests is a dict path -> digest here, so the order of the loop is immaterial
RECURSIVE save_call_files(_, _, _, _)
save_call_files(s, call_id, fun_name, digests) ==
    IF DOMAIN digests = {} THEN s
    ELSE LET p == CHOOSE x \in DOMAIN digests : TRUE
         IN  save_call_files(save_call_file(s, call_id, fun_name, p, digests[p]),
                             call_id, fun_name, Del(digests, p))

save_external_srcs(s, fun_name, call_id, srcs) ==
    [s EXCEPT !._external_srcs = Put(@, fun_name, Put(GetOrEmpty(@, fun_name), call_id, srcs))]

save_external_dsts(s, fun_name, call_id, dsts) ==
    [s EXCEPT !._external_dsts = Put(@, fun_name, Put(GetOrEmpty(@, fun_name), call_id, dsts))]

save_external_files(s, fun_name, call_id, srcs, dsts, digests) ==
    save_call_files(
        save_external_dsts(save_external_srcs(s, fun_name, call_id, srcs), fun_name, call_id, dsts),
        call_id, fun_name, digests)

find_file(s, file_name) ==
    IF Has(s._files, file_name) THEN s._files[file_name] ELSE <<None, None>>

save_file(s, file_name, mtime, digest) ==
    [s EXCEPT !._files = Put(@, file_name, <<mtime, digest>>)]

delete_file_keepcalls(s, file_name) ==
    [s EXCEPT !._files = Del(@, file_name)]

delete_file(s, file_name) ==
    [s EXCEPT !._files = Del(@, file_name), !._call_files = Del(@, file_name)]

(***************************************************************************)
(* The store driven one operation at a time.  last records the operation   *)
(* that ran last: its name, its arguments, what it returned, whether it    *)
(* raised, and (for a purge) whether the function had records to purge.    *)
(***************************************************************************)
NoOp == [op |-> "init", name |-> None, id |-> NoId, bound |-> None,
         result |-> None, ret |-> NoId, raised |-> FALSE, had |-> FALSE]

Op(op, name, id, bound, result, ret, raised) ==
    [op |-> op, name |-> name, id |-> id, bound |-> bound,
     result |-> result, ret |-> ret, raised |-> raised, had |-> FALSE]

\* fun_name has a call list, an external source set, an external destination
\* set and a call-file entry in s
HasRecords(s, fun_name) ==
    /\ Has(s._function_calls, fun_name)
    /\ Has(s._external_srcs, fun_name)
    /\ Has(s._external_dsts, fun_name)
    /\ \E p \in DOMAIN s._call_files : Has(s._call_files[p], fun_name)

StoreInit ==
    /\ db = EmptyDb
    /\ last = NoOp
    /\ nops = 0

SaveFunction ==
    \E name \in FunNames, d \in Digests :
        /\ db' = save_function(db, name, d)
        /\ last' = [Op("save_function", name, NoId, None, d, NoId, FALSE)
                       EXCEPT !.had = HasRecords(db, name)]
        /\ UNCHANGED notStore

DeleteFunction ==
    \E name \in FunNames :
        /\ db' = delete_function(db, name)
        /\ last' = [Op("delete_function", name, NoId, None, None, NoId, FALSE)
                       EXCEPT !.had = HasRecords(db, name)]
        /\ UNCHANGED notStore

FindCall ==
    \E name \in FunNames, b \in BoundArgs :
        /\ last' = Op("find_call", name, NoId, b, find_call(db, name, b)[2],
                      find_call(db, name, b)[1], FALSE)
        /\ UNCHANGED db
        /\ UNCHANGED notStore

\* save_call with its arguments drawn from the given sets; a call list grows
\* to MaxCalls pairs at most
SaveCallOn(names, ids, bounds, results) ==
    \E name \in names, id \in ids, b \in bounds, r \in results :
        LET out == save_call(db, name, id, b, r)
        IN  /\ Has(out.store._function_calls, name)
                  => Len(out.store._function_calls[name]) <= MaxCalls
            /\ db' = out.store
            /\ last' = Op("save_call", name, id, b, r, out.ret, out.raised)
            /\ UNCHANGED notStore

SaveCall == SaveCallOn(FunNames, CallIds \cup {NoId}, BoundArgs, Results)

SaveCallFileOn(ids, names, paths, digests) ==
    \E id \in ids, name \in names, p \in paths, d \in digests :
        /\ db' = save_call_file(db, id, name, p, d)
        /\ last' = Op("save_call_file", name, id, p, d, NoId, FALSE)
        /\ UNCHANGED notStore

SaveCallFile == SaveCallFileOn(CallIds, FunNames, Paths, Digests)

\* the external sources and destinations of one call, as the engine collects them
ExtChoices == {<<{}, {}>>, <<{"p"}, {}>>, <<{"p"}, {"q"}>>, <<{"p", "q"}, {}>>}

\* the digests the engine passes cover the external files of the call
SaveExternalFilesOn(names, ids, choices, digests) ==
    \E name \in names, id \in ids, sd \in choices, d \in digests :
        /\ db' = save_external_files(db, name, id, sd[1], sd[2],
                                     [p \in sd[1] \cup sd[2] |-> d])
        /\ last' = Op("save_external_files", name, id, sd, d, NoId, FALSE)
        /\ UNCHANGED notStore

SaveExternalFiles == SaveExternalFilesOn(FunNames, CallIds, ExtChoices, Digests)

SaveFile ==
    \E p \in Paths, m \in Mtimes, d \in Digests :
        /\ db' = save_file(db, p, m, d)
        /\ last' = Op("save_file", p, m, None, d, NoId, FALSE)
        /\ UNCHANGED notStore

DeleteFile ==
    \E p \in Paths :
        /\ db' = delete_file(db, p)
        /\ last' = [Op("delete_file", p, NoId, None, None, NoId, FALSE)
                       EXCEPT !.had = Has(db._files, p) /\ Has(db._call_files, p)]
        /\ UNCHANGED notStore

\* one more mutating operation of a run of at most n of them
Budget(n) == nops < n /\ nops' = nops + 1

(***************************************************************************)
(* The on-disk store: PickleBackend.save and PickleBackend.load.           *)
(***************************************************************************)

Dump_swapped(s) ==
    <<s._functions, s._function_calls, s._files,
      s._call_files, s._external_dsts, s._external_srcs>>

\* pickler.dump of the 6-tuple of relations, in the order save lists them
Dump(s) ==
    <<s._functions, s._function_calls, s._files,
      s._call_files, s._external_srcs, s._external_dsts>>

\* the tuple assignment of load, in the order load lists the relations
Undump(t) ==
    [ _functions      |-> t[1],
      _function_calls |-> t[2],
      _files          |-> t[3],
      _call_files     |-> t[4],
      _external_srcs  |-> t[5],
      _external_dsts  |-> t[6] ]

\* a file: absent, or present with complete bytes, or present and torn
\* (created and not yet, or only partly, written)
Absent == [exists |-> FALSE, torn |-> FALSE, bytes |-> Dump(EmptyDb)]

Torn == [exists |-> TRUE, torn |-> TRUE, bytes |-> Dump(EmptyDb)]

File(bytes) == [exists |-> TRUE, torn |-> FALSE, bytes |-> bytes]

DiskInit ==
    /\ disk = [path |-> Absent, tmp |-> Absent, old |-> Absent]
    /\ pcSave = "idle"
    /\ proc = "up"
    /\ saving = Dump(EmptyDb)
    /\ before = Absent
    /\ stale = FALSE

Running == proc \in {"up", "loaded"}

\* a build step changes the relations (between saves only)
DiskMutate ==
    /\ Running
    /\ pcSave = "idle"
    /\ SaveFunction
    /\ Budget(MaxDiskOps)

\* lines 23-34: serialize the relations to bytes
SaveDump ==
    /\ Running
    /\ pcSave = "idle"
    /\ saving' = Dump(db)
    /\ before' = disk.path
    /\ stale' = disk.old.exists
    /\ pcSave' = "dumped"
    /\ last' = Op("save", None, NoId, None, None, NoId, FALSE)
    /\ UNCHANGED <<db, nops, disk, proc>>
    /\ UNCHANGED notDisk

SaveOpenInPlace ==
    /\ Running
    /\ pcSave = "dumped"
    /\ disk' = [disk EXCEPT !.path = Torn]
    /\ pcSave' = "opened"
    /\ UNCHANGED <<storeVars, proc, saving, before, stale>>
    /\ UNCHANGED notDisk

\* line 44: open(tmp, 'wb') creates or truncates <path>.tmp
SaveOpenTmp ==
    /\ Running
    /\ pcSave = "dumped"
    /\ disk' = [disk EXCEPT !.tmp = Torn]
    /\ pcSave' = "opened"
    /\ UNCHANGED <<storeVars, proc, saving, before, stale>>
    /\ UNCHANGED notDisk

\* line 45 and the end of the with block: the bytes are written and the file closed
SaveWriteTmp ==
    /\ Running
    /\ pcSave = "opened"
    /\ disk' = [disk EXCEPT !.tmp = File(saving)]
    /\ pcSave' = "written"
    /\ UNCHANGED <<storeVars, proc, saving, before, stale>>
    /\ UNCHANGED notDisk

\* lines 47-48: if path.exists(): path.rename(old)
SaveMoveOld ==
    /\ Running
    /\ pcSave = "written"
    /\ disk' = IF disk.path.exists
               THEN [disk EXCEPT !.old = disk.path, !.path = Absent]
               ELSE disk
    /\ pcSave' = "moved"
    /\ UNCHANGED <<storeVars, proc, saving, before, stale>>
    /\ UNCHANGED notDisk

\* line 50: tmp.rename(path)
SaveRenameTmp ==
    /\ Running
    /\ pcSave = "moved"
    /\ disk' = [disk EXCEPT !.path = disk.tmp, !.tmp = Absent]
    /\ pcSave' = "renamed"
    /\ UNCHANGED <<storeVars, proc, saving, before, stale>>
    /\ UNCHANGED notDisk

SaveRemoveMoved ==
    /\ Running
    /\ pcSave = "renamed"
    /\ disk' = IF before.exists THEN [disk EXCEPT !.old = Absent] ELSE disk
    /\ pcSave' = "idle"
    /\ UNCHANGED <<storeVars, proc, saving, before, stale>>
    /\ UNCHANGED notDisk

\* lines 52-53: if old.exists(): old.remove()
SaveRemoveOld ==
    /\ Running
    /\ pcSave = "renamed"
    /\ disk' = [disk EXCEPT !.old = Absent]
    /\ pcSave' = "idle"
    /\ UNCHANGED <<storeVars, proc, saving, before, stale>>
    /\ UNCHANGED notDisk

\* the process is killed or interrupted somewhere inside save
Crash ==
    /\ Running
    /\ pcSave # "idle"
    /\ proc' = "down"
    /\ UNCHANGED <<storeVars, disk, pcSave, saving, before, stale>>
    /\ UNCHANGED notDisk

\* the outcome of load(path) on a fresh PickleBackend: open raises when the
\* file is missing and the unpickler raises on torn bytes (the relations are
\* assigned only after unpickler.load() returned); otherwise the six
\* relations are replaced.  load reads <path> alone.
load(d) ==
    IF d.path.exists /\ ~d.path.torn
    THEN [ok |-> TRUE, store |-> Undump(d.path.bytes)]
    ELSE [ok |-> FALSE, store |-> EmptyDb]

load_anyfile(d) ==
    IF d.path.exists /\ ~d.path.torn
    THEN [ok |-> TRUE, store |-> Undump(d.path.bytes)]
    ELSE IF d.old.exists /\ ~d.old.torn
         THEN [ok |-> TRUE, store |-> Undump(d.old.bytes)]
         ELSE [ok |-> FALSE, store |-> EmptyDb]

\* the next startup: a new process, a new PickleBackend, load(path)
Startup ==
    /\ proc = "down"
    /\ db' = load(disk).store
    /\ proc' = IF load(disk).ok THEN "loaded" ELSE "failed"
    /\ pcSave' = "idle"
    /\ last' = Op("load", None, NoId, None, None, NoId, ~load(disk).ok)
    /\ UNCHANGED <<nops, disk, saving, before, stale>>
    /\ UNCHANGED notDisk

\* load(path) called on a fresh PickleBackend of the running process, not
\* inside a save: its relations are those load assigns, or the empty ones of
\* __init__ when load raised
Load ==
    /\ Running
    /\ pcSave = "idle"
    /\ db' = load(disk).store
    /\ proc' = IF load(disk).ok THEN "loaded" ELSE "failed"
    /\ last' = Op("load", None, NoId, None, None, NoId, ~load(disk).ok)
    /\ UNCHANGED <<nops, disk, pcSave, saving, before, stale>>
    /\ UNCHANGED notDisk

\* a build step of a round trip: any operation that fills one of the six
\* relations, between saves
Fill(A) == Running /\ pcSave = "idle" /\ A /\ Budget(MaxRoundOps)

FillFunction == Fill(SaveFunction) /\ last'.name = "f"

FillCall == Fill(SaveCallOn({"f"}, {NoId}, {"b1"}, {"r1"}))

FillFile == Fill(SaveFile) /\ last'.name = "p" /\ last'.result = "d1"

FillExternalFiles == Fill(SaveExternalFilesOn({"f"}, {0}, {<<{"p"}, {"q"}>>}, {"d1"}))

RoundNext ==
    \/ FillFunction
    \/ FillCall
    \/ FillFile
    \/ FillExternalFiles
    \/ SaveDump
    \/ SaveOpenTmp
    \/ SaveWriteTmp
    \/ SaveMoveOld
    \/ SaveRenameTmp
    \/ SaveRemoveOld
    \/ Load

\* while the process is down the bytes of <path> are damaged, so that
\* unpickler.load() (line 62) raises on them
Corrupt ==
    /\ proc = "down"
    /\ disk.path.exists
    /\ ~disk.path.torn
    /\ disk' = [disk EXCEPT !.path = Torn]
    /\ UNCHANGED <<storeVars, pcSave, proc, saving, before, stale>>
    /\ UNCHANGED notDisk

\* a new process after a killed one: a new PickleBackend, whose relations
\* __init__ leaves empty, and no load
Restart ==
    /\ proc = "down"
    /\ db' = EmptyDb
    /\ proc' = "up"
    /\ pcSave' = "idle"
    /\ last' = NoOp
    /\ UNCHANGED <<nops, disk, saving, before, stale>>
    /\ UNCHANGED notDisk

ResaveNext ==
    \/ DiskMutate
    \/ SaveDump
    \/ SaveOpenTmp
    \/ SaveWriteTmp
    \/ SaveMoveOld
    \/ SaveRenameTmp
    \/ SaveRemoveOld
    \/ Crash
    \/ Startup
    \/ Restart

CorruptNext ==
    \/ DiskMutate
    \/ SaveDump
    \/ SaveOpenTmp
    \/ SaveWriteTmp
    \/ SaveMoveOld
    \/ SaveRenameTmp
    \/ SaveRemoveOld
    \/ Crash
    \/ Corrupt
    \/ Startup

DiskNext ==
    \/ DiskMutate
    \/ SaveDump
    \/ SaveOpenTmp
    \/ SaveWriteTmp
    \/ SaveMoveOld
    \/ SaveRenameTmp
    \/ SaveRemoveOld
    \/ Crash
    \/ Startup

(***************************************************************************)
(* The console log: lib/fbuild/console.py.                                 *)
(*                                                                         *)
(* A thread runs one Log call at a time; code[t] holds the statements of   *)
(* that call still to run, one atomic step each.  A message is named by    *)
(* the thread that wrote it and its number n among that thread's messages. *)
(***************************************************************************)
Threads == {"t1", "t2"}

\* Log.__init__, line 44: self.maxlen = 25
MaxlenStart == 25

\* Log.check, line 100: min(d + 1, 40)
MaxlenClip == 40

NoThread == "nobody"

\* the threads that run when the scheduler has c workers
Workers(c) == IF c = 1 THEN {"t1"} ELSE Threads

\* one statement: k its kind, n the message, buffer the keyword of write,
\* shown whether verbose <= self.verbose, f the scope exit that flushes it
\* (0 outside a flush)
Stmt(k, n, buffer, shown, f) == [k |-> k, n |-> n, buffer |-> buffer, shown |-> shown, f |-> f]

Acquire == Stmt("acquire", 0, FALSE, FALSE, 0)

Release == Stmt("release", 0, FALSE, FALSE, 0)

\* self.write(msg, buffer=..., verbose=...)
WriteStmt(n, buffer, shown) == Stmt("write", n, buffer, shown, 0)

\* self._write(msg): first the log file (line 77), then stdout (lines 79-82)
UnderscoreWrite(n, shown, f) ==
    <<Stmt("logfile", n, FALSE, shown, f), Stmt("stdout", n, FALSE, shown, f)>>

RECURSIVE FlushBackwards(_, _)
FlushBackwards(msgs, f) ==
    IF msgs = <<>> THEN <<>>
    ELSE FlushBackwards(Tail(msgs), f) \o UnderscoreWrite(msgs[1][1], msgs[1][2], f)

FlushLast(msgs, f) ==
    IF msgs = <<>> THEN <<>>
    ELSE UnderscoreWrite(msgs[Len(msgs)][1], msgs[Len(msgs)][2], f)

\* the calls of _write of the for loop of log_from_thread, for the popped
\* buffer msgs (a sequence of <<n, shown>>)
RECURSIVE FlushLoop(_, _)
FlushLoop(msgs, f) ==
    IF msgs = <<>> THEN <<>>
    ELSE UnderscoreWrite(msgs[1][1], msgs[1][2], f) \o FlushLoop(Tail(msgs), f)

LogStart(c) ==
    /\ count = c
    /\ maxlen = MaxlenStart
    /\ stdout = <<>>
    /\ logfile = <<>>
    /\ lock = [owner |-> NoThread, depth |-> 0]
    /\ stacks = [t \in Threads |-> <<>>]
    /\ code = [t \in Threads |-> <<>>]
    /\ nmsg = [t \in Threads |-> 0]
    /\ nflush = [t \in Threads |-> 0]

LogInit == \E c \in {1, 2} : LogStart(c)

\* thread t is between two Log calls
Idle(t) == t \in Workers(count) /\ code[t] = <<>>

\* thread t is about to run a statement of kind k
At(t, k) == t \in Workers(count) /\ code[t] # <<>> /\ Head(code[t]).k = k

\* the statement is done
Advance(t) == code' = [code EXCEPT ![t] = Tail(@)]

\* the statement is replaced by the statements it calls
Expand(t, stmts) == code' = [code EXCEPT ![t] = stmts \o Tail(@)]

\* log_from_thread, lines 50-51: stack.append([])
EnterScopeBy(t) ==
    /\ Idle(t)
    /\ nflush[t] + Len(stacks[t]) < MaxScopes
    /\ stacks' = [stacks EXCEPT ![t] = Append(@, <<>>)]
    /\ UNCHANGED <<maxlen, count, stdout, logfile, lock, code, nmsg, nflush>>
    /\ UNCHANGED notLog

\* log_from_thread, lines 55-59: msgs = stack.pop(), then with self._lock:
\* _write for each message
ExitScopeBy(t) ==
    /\ Idle(t)
    /\ stacks[t] # <<>>
    /\ LET msgs == stacks[t][Len(stacks[t])]
           f == nflush[t] + 1
       IN  /\ stacks' = [stacks EXCEPT ![t] = SubSeq(@, 1, Len(@) - 1)]
           /\ nflush' = [nflush EXCEPT ![t] = f]
           /\ code' = [code EXCEPT ![t] = <<Acquire>> \o FlushLoop(msgs, f) \o <<Release>>]
    /\ UNCHANGED <<maxlen, count, stdout, logfile, lock, nmsg>>
    /\ UNCHANGED notLog

\* a call of Log.write(msg, buffer=...) from the build
CallWriteBy(t) ==
    /\ Idle(t)
    /\ nmsg[t] + 1 <= MaxMsgs
    /\ \E buffer \in BOOLEAN :
          code' = [code EXCEPT ![t] = <<WriteStmt(nmsg[t] + 1, buffer, TRUE)>>]
    /\ nmsg' = [nmsg EXCEPT ![t] = @ + 1]
    /\ UNCHANGED <<maxlen, count, stdout, logfile, lock, stacks, nflush>>
    /\ UNCHANGED notLog

\* Log.log, lines 90-92: with self._lock: write(msg); write('\n')
\* (passed and failed are log with a colour)
CallLogBy(t) ==
    /\ Idle(t)
    /\ nmsg[t] + 2 <= MaxMsgs
    /\ code' = [code EXCEPT ![t] =
          <<Acquire, WriteStmt(nmsg[t] + 1, TRUE, TRUE),
            WriteStmt(nmsg[t] + 2, TRUE, TRUE), Release>>]
    /\ nmsg' = [nmsg EXCEPT ![t] = @ + 2]
    /\ UNCHANGED <<maxlen, count, stdout, logfile, lock, stacks, nflush>>
    /\ UNCHANGED notLog

\* min(d + 1, 40)
Min(a, b) == IF a <= b THEN a ELSE b

\* Log.check with result None and a label of d characters.  Lines 98-99:
\* d = len(msg); if d >= self.maxlen (the read of maxlen is the first shared
\* access of the call, made here); then line 100, the assignment, is a
\* statement of its own; then lines 104-106: write(msg, verbose=verbose);
\* write('\n', verbose=verbose + 1), without the lock; the newline is above
\* the log's verbosity when the label is at it
CallCheckOn(t, lens) ==
    /\ Idle(t)
    /\ nmsg[t] + 2 <= MaxMsgs
    /\ \E d \in lens :
          code' = [code EXCEPT ![t] =
              (IF d >= maxlen THEN <<Stmt("setmax", d, FALSE, FALSE, 0)>> ELSE <<>>)
              \o <<WriteStmt(nmsg[t] + 1, TRUE, TRUE), WriteStmt(nmsg[t] + 2, TRUE, FALSE)>>]
    /\ nmsg' = [nmsg EXCEPT ![t] = @ + 2]
    /\ UNCHANGED <<maxlen, count, stdout, logfile, lock, stacks, nflush>>
    /\ UNCHANGED notLog

\* a check whose label is shorter than the column
CallCheckBy(t) == CallCheckOn(t, {20})

\* line 100: self.maxlen = min(d + 1, 40)
SetMaxlenBy(t) ==
    /\ At(t, "setmax")
    /\ maxlen' = Min(Head(code[t]).n + 1, MaxlenClip)
    /\ Advance(t)
    /\ UNCHANGED <<count, stdout, logfile, lock, stacks, nmsg, nflush>>
    /\ UNCHANGED notLog

\* Log.write, lines 62-72
write_locked(t, st) ==
    IF ~st.buffer \/ count = 1
    THEN /\ Expand(t, <<Acquire>> \o UnderscoreWrite(st.n, st.shown, 0) \o <<Release>>)
         /\ UNCHANGED stacks
    ELSE IF stacks[t] # <<>>
         THEN /\ stacks' = [stacks EXCEPT ![t][Len(stacks[t])] = Append(@, <<st.n, st.shown>>)]
              /\ Advance(t)
         ELSE /\ Expand(t, <<Acquire>> \o UnderscoreWrite(st.n, st.shown, 0) \o <<Release>>)
              /\ UNCHANGED stacks

write_nocount(t, st) ==
    IF ~st.buffer
    THEN /\ Expand(t, <<Acquire>> \o UnderscoreWrite(st.n, st.shown, 0) \o <<Release>>)
         /\ UNCHANGED stacks
    ELSE IF stacks[t] # <<>>
         THEN /\ stacks' = [stacks EXCEPT ![t][Len(stacks[t])] = Append(@, <<st.n, st.shown>>)]
              /\ Advance(t)
         ELSE /\ Expand(t, UnderscoreWrite(st.n, st.shown, 0))
              /\ UNCHANGED stacks

write(t, st) ==
    IF ~st.buffer \/ count = 1
    THEN /\ Expand(t, <<Acquire>> \o UnderscoreWrite(st.n, st.shown, 0) \o <<Release>>)
         /\ UNCHANGED stacks
    ELSE IF stacks[t] # <<>>
         THEN /\ stacks' = [stacks EXCEPT ![t][Len(stacks[t])] = Append(@, <<st.n, st.shown>>)]
              /\ Advance(t)
         ELSE /\ Expand(t, UnderscoreWrite(st.n, st.shown, 0))
              /\ UNCHANGED stacks

WriteBy(t) ==
    /\ At(t, "write")
    /\ write(t, Head(code[t]))
    /\ UNCHANGED <<maxlen, count, stdout, logfile, lock, nmsg, nflush>>
    /\ UNCHANGED notLog

\* with self._lock: entry (RLock: free, or already held by this thread)
LockAcquireBy(t) ==
    /\ At(t, "acquire")
    /\ lock.owner \in {NoThread, t}
    /\ lock' = [owner |-> t, depth |-> lock.depth + 1]
    /\ Advance(t)
    /\ UNCHANGED <<maxlen, count, stdout, logfile, stacks, nmsg, nflush>>
    /\ UNCHANGED notLog

\* with self._lock: exit
LockReleaseBy(t) ==
    /\ At(t, "release")
    /\ lock' = IF lock.depth = 1 THEN [owner |-> NoThread, depth |-> 0]
               ELSE [lock EXCEPT !.depth = @ - 1]
    /\ Advance(t)
    /\ UNCHANGED <<maxlen, count, stdout, logfile, stacks, nmsg, nflush>>
    /\ UNCHANGED notLog

\* _write, line 77: self.logfile.write(msg)
WriteLogfileBy(t) ==
    /\ At(t, "logfile")
    /\ logfile' = Append(logfile, [t |-> t, n |-> Head(code[t]).n, f |-> Head(code[t]).f])
    /\ Advance(t)
    /\ UNCHANGED <<maxlen, count, stdout, lock, stacks, nmsg, nflush>>
    /\ UNCHANGED notLog

\* _write, lines 79-82: sys.stdout.write(msg) if verbose <= self.verbose
WriteStdoutBy(t) ==
    /\ At(t, "stdout")
    /\ stdout' = IF Head(code[t]).shown
                 THEN Append(stdout, [t |-> t, n |-> Head(code[t]).n, f |-> Head(code[t]).f])
                 ELSE stdout
    /\ Advance(t)
    /\ UNCHANGED <<maxlen, count, logfile, lock, stacks, nmsg, nflush>>
    /\ UNCHANGED notLog

EnterScope == \E t \in Threads : EnterScopeBy(t)

ExitScope == \E t \in Threads : ExitScopeBy(t)

CallWrite == \E t \in Threads : CallWriteBy(t)

CallLog == \E t \in Threads : CallLogBy(t)

CallCheck == \E t \in Threads : CallCheckBy(t)

\* checks with labels below the column, above it and above the clip
CallCheckLabel == \E t \in Threads : CallCheckOn(t, {20, 30, 45})

SetMaxlen == \E t \in Threads : SetMaxlenBy(t)

Write == \E t \in Threads : WriteBy(t)

LockAcquire == \E t \in Threads : LockAcquireBy(t)

LockRelease == \E t \in Threads : LockReleaseBy(t)

WriteLogfile == \E t \in Threads : WriteLogfileBy(t)

WriteStdout == \E t \in Threads : WriteStdoutBy(t)

LogNext ==
    \/ EnterScope
    \/ ExitScope
    \/ CallWrite
    \/ CallLog
    \/ CallCheck
    \/ Write
    \/ LockAcquire
    \/ LockRelease
    \/ WriteLogfile
    \/ WriteStdout

(***************************************************************************)
(* The scheduler's map_with_dependencies(depfn, workerfn, inputs), as      *)
(* _Linker.run calls it (depfn: ocamldep, workerfn: the compiler, inputs:  *)
(* the sources).  Each depfn and each workerfn invocation is its own task  *)
(* of a pool of NWorkers threads; the workerfn task of an input is ready   *)
(* once workerfn has completed for every prerequisite depfn returned for   *)
(* it; prerequisites that are not inputs are fed through depfn and         *)
(* workerfn as well; a cycle of prerequisites is a fatal error.            *)
(***************************************************************************)
Nodes == {"a", "b", "c"}

\* the life of an input: unknown (not discovered), queued (depfn task not
\* started), depping (depfn running), waiting (workerfn task not started),
\* working (workerfn running), done (workerfn completed), failed (its depfn
\* or its workerfn raised)
SchedStart(fn, ins) ==
    /\ depfn = fn
    /\ inputs = ins
    /\ task = [x \in Nodes |-> IF x \in ins THEN "queued" ELSE "unknown"]
    /\ deps = [x \in Nodes |-> {}]
    /\ clock = 0
    /\ tstart = [x \in Nodes |-> 0]
    /\ tend = [x \in Nodes |-> 0]
    /\ outcome = "running"
    /\ failure = None
    /\ report = {}
    /\ caller = "mapping"

\* any sources, any answers of ocamldep (a source is never its own prerequisite)
SchedInit ==
    \E fn \in [Nodes -> SUBSET Nodes], ins \in (SUBSET Nodes) \ {{}} :
        /\ \A x \in Nodes : x \notin fn[x]
        /\ SchedStart(fn, ins)

\* the tasks running on the pool's threads
InFlight == {x \in Nodes : task[x] \in {"depping", "working"}}

\* a thread of the pool is idle; the pool has count threads
FreeWorker == Cardinality(InFlight) < count

\* x is reachable from y along the prerequisites in d, in one step or more
RECURSIVE ReachIn(_, _, _)
ReachIn(d, S, n) ==
    IF n = 0 THEN S
    ELSE ReachIn(d, S \cup UNION {d[x] : x \in S}, n - 1)

Closure(d, x) == ReachIn(d, d[x], Cardinality(Nodes))

\* the inputs that lie on a cycle of the prerequisites in d
OnCycle(d) == {x \in Nodes : x \in Closure(d, x)}

NoCycle(d) == FALSE

\* the prerequisites known so far hold a cycle
HasCycle(d) == OnCycle(d) # {}

DispatchingAlways == outcome = "running"

\* tasks are still dispatched: the call has not ended and no task has raised
Dispatching == outcome = "running" /\ failure = None

\* a worker pops the depfn task of x
StartDep ==
    \E x \in Nodes :
        /\ Dispatching
        /\ task[x] = "queued"
        /\ FreeWorker
        /\ task' = [task EXCEPT ![x] = "depping"]
        /\ UNCHANGED <<depfn, inputs, deps, clock, tstart, tend, outcome,
                       failure, report, caller>>
        /\ UNCHANGED notSched

\* depfn(x) returns, and only the prerequisites that are in the initial list
\* get tasks
FinishDepListed ==
    \E x \in Nodes :
        /\ task[x] = "depping"
        /\ deps' = [deps EXCEPT ![x] = depfn[x]]
        /\ task' = [task EXCEPT ![x] = "waiting"]
        /\ UNCHANGED <<depfn, inputs, clock, tstart, tend, outcome,
                       failure, report, caller>>
        /\ UNCHANGED notSched

\* depfn(x) returns: its prerequisites are recorded, and those seen for the
\* first time are queued
FinishDep ==
    \E x \in Nodes :
        /\ task[x] = "depping"
        /\ deps' = [deps EXCEPT ![x] = depfn[x]]
        /\ task' = [y \in Nodes |->
                      IF y = x THEN "waiting"
                      ELSE IF y \in depfn[x] /\ task[y] = "unknown" THEN "queued"
                      ELSE task[y]]
        /\ UNCHANGED <<depfn, inputs, clock, tstart, tend, outcome,
                       failure, report, caller>>
        /\ UNCHANGED notSched

\* workerfn(x) may begin: workerfn has completed for every prerequisite of x
ReadyStarted(x) == \A y \in deps[x] : task[y] \in {"working", "done"}

Ready(x) == \A y \in deps[x] : task[y] = "done"

\* a worker pops the workerfn task of x
StartWork ==
    \E x \in Nodes :
        /\ Dispatching
        /\ task[x] = "waiting"
        /\ Ready(x)
        /\ FreeWorker
        /\ task' = [task EXCEPT ![x] = "working"]
        /\ clock' = clock + 1
        /\ tstart' = [tstart EXCEPT ![x] = clock + 1]
        /\ UNCHANGED <<depfn, inputs, deps, tend, outcome, failure, report, caller>>
        /\ UNCHANGED notSched

\* workerfn(x) completes, which wakes the tasks that waited for it
FinishWork ==
    \E x \in Nodes :
        /\ task[x] = "working"
        /\ task' = [task EXCEPT ![x] = "done"]
        /\ clock' = clock + 1
        /\ tend' = [tend EXCEPT ![x] = clock + 1]
        /\ UNCHANGED <<depfn, inputs, deps, tstart, outcome, failure, report, caller>>
        /\ UNCHANGED notSched

\* the running task of x (its depfn or its workerfn) raises: the failure is
\* collected, the first one is kept
TaskRaises ==
    \E x \in Nodes :
        /\ task[x] \in {"depping", "working"}
        /\ task' = [task EXCEPT ![x] = "failed"]
        /\ clock' = clock + 1
        /\ tend' = [tend EXCEPT ![x] = clock + 1]
        /\ failure' = IF failure = None THEN x ELSE failure
        /\ UNCHANGED <<depfn, inputs, deps, tstart, outcome, report, caller>>
        /\ UNCHANGED notSched

\* the prerequisites found so far hold a cycle: fatal, nothing more is
\* dispatched, the error names the inputs on the cycle
DetectCycle ==
    /\ outcome = "running"
    /\ HasCycle(deps)
    /\ outcome' = "cycle"
    /\ report' = OnCycle(deps)
    /\ UNCHANGED <<depfn, inputs, task, deps, clock, tstart, tend, failure, caller>>
    /\ UNCHANGED notSched

\* every discovered input is done: the results are returned
Return ==
    /\ outcome = "running"
    /\ \A x \in Nodes : task[x] \in {"unknown", "done"}
    /\ outcome' = "returned"
    /\ UNCHANGED <<depfn, inputs, task, deps, clock, tstart, tend, failure, report, caller>>
    /\ UNCHANGED notSched

\* a task has raised and the tasks in flight have completed: the first
\* collected failure is re-raised to the caller
Reraise ==
    /\ outcome = "running"
    /\ failure # None
    /\ InFlight = {}
    /\ outcome' = "raised"
    /\ report' = {failure}
    /\ UNCHANGED <<depfn, inputs, task, deps, clock, tstart, tend, failure, caller>>
    /\ UNCHANGED notSched

\* packages/ocaml.py lines 66-70: the map returned, the link command runs
Link ==
    /\ caller = "mapping"
    /\ outcome = "returned"
    /\ caller' = "linking"
    /\ UNCHANGED <<depfn, inputs, task, deps, clock, tstart, tend, outcome, failure, report>>
    /\ UNCHANGED notSched

\* packages/ocaml.py lines 61-64: the exception of the map leaves _Linker.run
Propagate ==
    /\ caller = "mapping"
    /\ outcome \in {"raised", "cycle"}
    /\ caller' = "raised"
    /\ UNCHANGED <<depfn, inputs, task, deps, clock, tstart, tend, outcome, failure, report>>
    /\ UNCHANGED notSched

SchedNext ==
    \/ StartDep
    \/ FinishDep
    \/ StartWork
    \/ FinishWork
    \/ TaskRaises
    \/ DetectCycle
    \/ Return
    \/ Reraise
    \/ Link
    \/ Propagate

\* no map_with_dependencies call is made
SchedOff == SchedStart([x \in Nodes |-> {}], {})

(***************************************************************************)
(* The scheduler's map primitive: map(f, items).  Each item is one task;   *)
(* a task that completes puts f(item) into the slot of its position; the   *)
(* call returns the slots in the order of the positions.                   *)
(***************************************************************************)
Items == {"x", "y"}

\* the longest list of items
MaxItems == 3

\* the function that is mapped
F(x) == <<"f", x>>

NoRet == [kind |-> "none", value |-> <<>>]

MapStart(its) ==
    /\ items = its
    /\ mtask = [k \in 1 .. Len(its) |-> "queued"]
    /\ slot = [k \in 1 .. Len(its) |-> None]
    /\ order = <<>>
    /\ mret = NoRet

\* no map call is made
MapOff == MapStart(<<>>)

\* any list of items, the same item more than once too
MapInit == \E n \in 1 .. MaxItems : \E its \in [1 .. n -> Items] : MapStart(its)

\* a pool of any size
PoolInit == \E c \in 1 .. NWorkers : LogStart(c)

Positions == 1 .. Len(items)

MapRunning == {k \in Positions : mtask[k] = "running"}

MapFailed == {k \in Positions : mtask[k] = "failed"}

\* the results in the order the tasks completed
ByCompletion == [k \in 1 .. Len(order) |-> slot[order[k]]]

\* the results, slot by slot, in the order of the positions
ByPosition == [k \in Positions |-> slot[k]]

\* a worker pops the task of any queued item
MapBegin ==
    \E k \in Positions :
        /\ mret = NoRet
        /\ MapFailed = {}
        /\ mtask[k] = "queued"
        /\ Cardinality(MapRunning) < count
        /\ mtask' = [mtask EXCEPT ![k] = "running"]
        /\ UNCHANGED <<items, slot, order, mret>>
        /\ UNCHANGED notMap

\* f(item) returns: the result goes to the slot of the item's position
MapFinish ==
    \E k \in Positions :
        /\ mtask[k] = "running"
        /\ mtask' = [mtask EXCEPT ![k] = "done"]
        /\ slot' = [slot EXCEPT ![k] = F(items[k])]
        /\ order' = Append(order, k)
        /\ UNCHANGED <<items, mret>>
        /\ UNCHANGED notMap

\* f(item) raises
MapRaise ==
    \E k \in Positions :
        /\ mtask[k] = "running"
        /\ mtask' = [mtask EXCEPT ![k] = "failed"]
        /\ order' = Append(order, k)
        /\ UNCHANGED <<items, slot, mret>>
        /\ UNCHANGED notMap

\* every task is done: map returns the results
MapReturn ==
    /\ mret = NoRet
    /\ items # <<>>
    /\ \A k \in Positions : mtask[k] = "done"
    /\ mret' = [kind |-> "returned", value |-> ByPosition]
    /\ UNCHANGED <<items, mtask, slot, order>>
    /\ UNCHANGED notMap

\* a task raised and nothing is in flight: the first failure is re-raised
MapReraise ==
    /\ mret = NoRet
    /\ MapFailed # {}
    /\ MapRunning = {}
    /\ mret' = [kind |-> "raised",
                value |-> <<order[CHOOSE i \in 1 .. Len(order) :
                                     /\ order[i] \in MapFailed
                                     /\ \A j \in 1 .. i - 1 : order[j] \notin MapFailed]>>]
    /\ UNCHANGED <<items, mtask, slot, order>>
    /\ UNCHANGED notMap

MapNext ==
    \/ MapBegin
    \/ MapFinish
    \/ MapRaise
    \/ MapReturn
    \/ MapReraise

(***************************************************************************)
(* The store used by several worker threads at once.  PickleBackend takes  *)
(* no lock, so the statements of its methods interleave; one step is one   *)
(* statement on the shared dicts and lists (each atomic in CPython).       *)
(* loc[t] holds the locals of the method thread t is inside: datas of      *)
(* save_call is a reference to a list object, which is live while the      *)
(* object is the one in _function_calls, and orphaned (with its own        *)
(* content, val) once another thread has put a new list in its place.      *)
(***************************************************************************)
NoSets == <<{}, {}>>

IdleOp == [op |-> "none", pc |-> "done", name |-> None, id |-> NoId, bound |-> None,
           result |-> None, sd |-> NoSets, todo |-> {}, orphan |-> FALSE,
           val |-> <<>>, ret |-> NoId, raised |-> FALSE]

ConcInit ==
    /\ loc = [t \in Threads |-> IdleOp]
    /\ ndone = [t \in Threads |-> 0]

\* the result and the digest a thread records, so that its records are recognisable
ResultOf(t) == IF t = "t1" THEN "r1" ELSE "r2"

DigestOf(t) == IF t = "t1" THEN "d1" ELSE "d2"

CanBegin(t) == loc[t].pc = "done" /\ ndone[t] < MaxConcOps

Finish(t, l) ==
    /\ loc' = [loc EXCEPT ![t] = [l EXCEPT !.pc = "done"]]
    /\ ndone' = [ndone EXCEPT ![t] = @ + 1]

\* thread t calls save_call(name, call_id, bound, result)
BeginSaveCall ==
    \E t \in Threads, name \in FunNames, id \in {NoId, 0}, b \in {"b1"} :
        /\ CanBegin(t)
        /\ loc' = [loc EXCEPT ![t] = [IdleOp EXCEPT !.op = "save_call", !.pc = "lookup",
                       !.name = name, !.id = id, !.bound = b, !.result = ResultOf(t)]]
        /\ UNCHANGED <<db, ndone>>
        /\ UNCHANGED notConc

\* lines 178-180: datas = self._function_calls[fun_name], or KeyError
SaveCallLookup ==
    \E t \in Threads :
        /\ loc[t].op = "save_call" /\ loc[t].pc = "lookup"
        /\ loc' = [loc EXCEPT ![t].pc =
                      IF ~Has(db._function_calls, loc[t].name) THEN "create"
                      ELSE IF loc[t].id = NoId THEN "append" ELSE "store"]
        /\ UNCHANGED <<db, ndone>>
        /\ UNCHANGED notConc

\* the threads whose datas is the list object now recorded for name
Holders(name) ==
    {u \in Threads : /\ loc[u].op = "save_call"
                     /\ loc[u].name = name
                     /\ loc[u].pc \in {"append", "len", "store"}
                     /\ ~loc[u].orphan}

\* lines 183-184: self._function_calls[fun_name] = [(bound, result)]; return 0
SaveCallCreate ==
    \E t \in Threads :
        /\ loc[t].op = "save_call" /\ loc[t].pc = "create"
        /\ db' = [db EXCEPT !._function_calls =
                     Put(@, loc[t].name, <<<<loc[t].bound, loc[t].result>>>>)]
        /\ loc' = [u \in Threads |->
                      IF u = t THEN [loc[t] EXCEPT !.pc = "done", !.ret = 0]
                      ELSE IF u \in Holders(loc[t].name)
                           THEN [loc[u] EXCEPT !.orphan = TRUE,
                                               !.val = db._function_calls[loc[t].name]]
                           ELSE loc[u]]
        /\ ndone' = [ndone EXCEPT ![t] = @ + 1]
        /\ UNCHANGED notConc

\* the content of the list object datas of thread t refers to
Datas(t) == IF loc[t].orphan THEN loc[t].val ELSE db._function_calls[loc[t].name]

\* line 187: datas.append((bound, result))
SaveCallAppend ==
    \E t \in Threads :
        /\ loc[t].op = "save_call" /\ loc[t].pc = "append"
        /\ Len(Datas(t)) < MaxCalls + 1
        /\ LET new == Append(Datas(t), <<loc[t].bound, loc[t].result>>)
           IN  IF loc[t].orphan
               THEN /\ loc' = [loc EXCEPT ![t].val = new, ![t].pc = "len"]
                    /\ UNCHANGED db
               ELSE /\ db' = [db EXCEPT !._function_calls[loc[t].name] = new]
                    /\ loc' = [loc EXCEPT ![t].pc = "len"]
        /\ UNCHANGED ndone
        /\ UNCHANGED notConc

\* line 188: return len(datas) - 1
SaveCallLen ==
    \E t \in Threads :
        /\ loc[t].op = "save_call" /\ loc[t].pc = "len"
        /\ Finish(t, [loc[t] EXCEPT !.ret = Len(Datas(t)) - 1])
        /\ UNCHANGED db
        /\ UNCHANGED notConc

\* lines 190-191: datas[call_id] = (bound, result); return call_id
SaveCallStore ==
    \E t \in Threads :
        /\ loc[t].op = "save_call" /\ loc[t].pc = "store"
        /\ LET i == loc[t].id + 1
               pair == <<loc[t].bound, loc[t].result>>
           IN  IF i > Len(Datas(t))
               THEN /\ Finish(t, [loc[t] EXCEPT !.raised = TRUE])
                    /\ UNCHANGED db
               ELSE IF loc[t].orphan
                    THEN /\ Finish(t, [loc[t] EXCEPT !.val[i] = pair, !.ret = loc[t].id])
                         /\ UNCHANGED db
                    ELSE /\ db' = [db EXCEPT !._function_calls[loc[t].name][i] = pair]
                         /\ Finish(t, [loc[t] EXCEPT !.ret = loc[t].id])
        /\ UNCHANGED notConc

\* thread t calls save_external_files(name, call_id, srcs, dsts, digests)
BeginSaveExternalFiles ==
    \E t \in Threads, name \in FunNames, id \in {0},
       sd \in {<<{"p"}, {"q"}>>, <<{"p", "q"}, {}>>} :
        /\ CanBegin(t)
        /\ loc' = [loc EXCEPT ![t] = [IdleOp EXCEPT !.op = "save_external_files",
                       !.pc = "srcs", !.name = name, !.id = id, !.sd = sd,
                       !.todo = sd[1] \cup sd[2], !.result = DigestOf(t)]]
        /\ UNCHANGED <<db, ndone>>
        /\ UNCHANGED notConc

\* line 250
SaveExternalSrcs ==
    \E t \in Threads :
        /\ loc[t].op = "save_external_files" /\ loc[t].pc = "srcs"
        /\ db' = save_external_srcs(db, loc[t].name, loc[t].id, loc[t].sd[1])
        /\ loc' = [loc EXCEPT ![t].pc = "dsts"]
        /\ UNCHANGED ndone
        /\ UNCHANGED notConc

\* line 251
SaveExternalDsts ==
    \E t \in Threads :
        /\ loc[t].op = "save_external_files" /\ loc[t].pc = "dsts"
        /\ db' = save_external_dsts(db, loc[t].name, loc[t].id, loc[t].sd[2])
        /\ loc' = [loc EXCEPT ![t].pc = "digests"]
        /\ UNCHANGED ndone
        /\ UNCHANGED notConc

\* line 253, save_call_files: one save_call_file per digest, then return
SaveExternalDigest ==
    \E t \in Threads :
        /\ loc[t].op = "save_external_files" /\ loc[t].pc = "digests"
        /\ IF loc[t].todo = {}
           THEN /\ Finish(t, loc[t])
                /\ UNCHANGED db
           ELSE \E p \in loc[t].todo :
                   /\ db' = save_call_file(db, loc[t].id, loc[t].name, p, loc[t].result)
                   /\ loc' = [loc EXCEPT ![t].todo = @ \ {p}]
                   /\ UNCHANGED ndone
        /\ UNCHANGED notConc

\* thread t runs find_external_srcs(call_id, name) and then
\* find_call_file(call_id, name, p) for a path p of the answer: its view of
\* the external sources of a call and of one recorded digest
ReadExternalSrcs ==
    \E t \in Threads, name \in FunNames, id \in {0} :
        /\ CanBegin(t)
        /\ Finish(t, [IdleOp EXCEPT !.op = "find_external_srcs", !.name = name, !.id = id,
                         !.sd = <<find_external_srcs(db, id, name), {}>>])
        /\ UNCHANGED db
        /\ UNCHANGED notConc

ReadCallFile ==
    \E t \in Threads, name \in FunNames, id \in {0}, p \in Paths :
        /\ CanBegin(t)
        /\ Finish(t, [IdleOp EXCEPT !.op = "find_call_file", !.name = name, !.id = id,
                         !.bound = p, !.result = find_call_file(db, id, name, p)])
        /\ UNCHANGED db
        /\ UNCHANGED notConc

ConcNext ==
    \/ BeginSaveCall
    \/ SaveCallLookup
    \/ SaveCallCreate
    \/ SaveCallAppend
    \/ SaveCallLen
    \/ SaveCallStore
    \/ BeginSaveExternalFiles
    \/ SaveExternalSrcs
    \/ SaveExternalDsts
    \/ SaveExternalDigest
    \/ ReadExternalSrcs
    \/ ReadCallFile

(***************************************************************************)
(* The cached-call engine (fbuild.db.caches) over the store, and a build   *)
(* run twice: the first run makes cached calls, the store is saved, the    *)
(* second run loads it and makes the same calls.  File contents never      *)
(* change: a path has one content, whoever writes it; its mtime may.       *)
(***************************************************************************)
\* the digest of the source of a cached function; it never changes here
FunDigest(name) == IF name = "f" THEN "d1" ELSE "d2"

\* the digest of the content the source p has before the build, and of the
\* content it has once it has been replaced
ContentOf(p) == "d1"

Replaced(p) == "d2"

\* the digest of the product a body writes, which depends on the content of
\* the source it reads
Product(d) == IF d = "d1" THEN "d2" ELSE "d1"

\* the cached procedures of the build, by call: f(b1) has the source
\* parameter p, f(b2) has no file parameter; g(b1) registers p with
\* add_external_src and its product q with add_external_dst, g(b2) touches
\* no file.  No two calls write the same path.
Srcs(name, b) == IF name = "f" /\ b = "b1" THEN {"p"} ELSE {}

Dsts(name, b) == {}

ExtSrcs(name, b) == IF name = "g" /\ b = "b1" THEN {"p"} ELSE {}

ExtDsts(name, b) == IF name = "g" /\ b = "b1" THEN {"q"} ELSE {}

NoFile == [exists |-> FALSE, digest |-> None, mtime |-> 0]

\* the source p exists before the build, the product q does not
FsInit == [x \in Paths |-> IF x = "p" THEN [exists |-> TRUE, digest |-> ContentOf(x), mtime |-> 1]
                           ELSE NoFile]

\* the File record of p is that of the file as it is now
Fresh(s, fsv, p) == Has(s._files, p) /\ find_file(s, p)[1] = fsv[p].mtime

\* the digest of a file through the File record cache: the recorded digest
\* when the recorded mtime is the file's mtime, else the digest of the content
FileDigest(s, fsv, p) ==
    IF ~fsv[p].exists THEN None
    ELSE IF Fresh(s, fsv, p) THEN find_file(s, p)[2]
         ELSE fsv[p].digest

\* the File records after digesting the paths ps
RECURSIVE DigestFiles(_, _, _)
DigestFiles(s, fsv, ps) ==
    IF ps = {} THEN s
    ELSE LET p == CHOOSE x \in ps : TRUE
             t == IF fsv[p].exists /\ ~Fresh(s, fsv, p)
                  THEN save_file(s, p, fsv[p].mtime, fsv[p].digest)
                  ELSE s
         IN  DigestFiles(t, fsv, ps \ {p})

\* step 5: every file recorded for the call exists and has the digest
\* recorded for it
Clean(s, fsv, name, id, files) ==
    \A p \in files :
        /\ FileDigest(s, fsv, p) # None
        /\ FileDigest(s, fsv, p) = find_call_file(s, id, name, p)

\* the body of a cached procedure writes its destinations, with mtime m
RunBody(fsv, name, b, m) ==
    [x \in Paths |-> IF x \in Dsts(name, b) \cup ExtDsts(name, b)
                     THEN [exists |-> TRUE, digest |-> Product(fsv["p"].digest), mtime |-> m]
                     ELSE fsv[x]]

save_nocallfiles(d, s) ==
    [path |-> File(Dump([s EXCEPT !._call_files = EmptyDict])), tmp |-> Absent, old |-> Absent]

\* PickleBackend.save run to its end: <path> holds the dump, no sibling is left
save(d, s) == [path |-> File(Dump(s)), tmp |-> Absent, old |-> Absent]

caches_hitrecords(s, fsv, name, b, r, m) ==
    LET s1 == DigestFiles(s, fsv, Srcs(name, b))
        s2 == IF find_function(s1, name) # FunDigest(name)
              THEN save_function(s1, name, FunDigest(name))
              ELSE s1
        fc == find_call(s2, name, b)
        recorded == Srcs(name, b) \cup Dsts(name, b)
                    \cup find_external_srcs(s2, fc[1], name)
                    \cup find_external_dsts(s2, fc[1], name)
    IN  IF fc[1] # NoId /\ Clean(s2, fsv, name, fc[1], recorded)
        THEN [store |-> save_call(s2, name, NoId, b, fc[2]).store, fs |-> fsv,
              executed |-> FALSE, result |-> fc[2]]
        ELSE LET fs2 == RunBody(fsv, name, b, m)
                 declared == Srcs(name, b) \cup Dsts(name, b)
                 external == ExtSrcs(name, b) \cup ExtDsts(name, b)
                 s3 == DigestFiles(s2, fs2, declared \cup external)
                 sc == save_call(s3, name, fc[1], b, r)
                 s4 == save_external_files(sc.store, name, sc.ret, ExtSrcs(name, b), ExtDsts(name, b),
                                           [x \in external |-> FileDigest(s3, fs2, x)])
                 s5 == save_call_files(s4, sc.ret, name,
                                       [x \in declared |-> FileDigest(s3, fs2, x)])
             IN  [store |-> s5, fs |-> fs2, executed |-> TRUE, result |-> r]

\* one call of the cached wrapper of name with bound arguments b, on the
\* store s and the files fsv; r and m are the result and the mtime the body
\* produces if it runs
caches(s, fsv, name, b, r, m) ==
    LET s1 == DigestFiles(s, fsv, Srcs(name, b))
        s2 == IF find_function(s1, name) # FunDigest(name)
              THEN save_function(s1, name, FunDigest(name))
              ELSE s1
        fc == find_call(s2, name, b)
        recorded == Srcs(name, b) \cup Dsts(name, b)
                    \cup find_external_srcs(s2, fc[1], name)
                    \cup find_external_dsts(s2, fc[1], name)
    IN  IF fc[1] # NoId /\ Clean(s2, fsv, name, fc[1], recorded)
        THEN [store |-> s2, fs |-> fsv, executed |-> FALSE, result |-> fc[2]]
        ELSE LET fs2 == RunBody(fsv, name, b, m)
                 declared == Srcs(name, b) \cup Dsts(name, b)
                 external == ExtSrcs(name, b) \cup ExtDsts(name, b)
                 s3 == DigestFiles(s2, fs2, declared \cup external)
                 sc == save_call(s3, name, fc[1], b, r)
                 s4 == save_external_files(sc.store, name, sc.ret, ExtSrcs(name, b), ExtDsts(name, b),
                                           [x \in external |-> FileDigest(s3, fs2, x)])
                 s5 == save_call_files(s4, sc.ret, name,
                                       [x \in declared |-> FileDigest(s3, fs2, x)])
             IN  [store |-> s5, fs |-> fs2, executed |-> TRUE, result |-> r]

BuildStart(phase) ==
    /\ fs = FsInit
    /\ run = phase
    /\ plan = <<>>
    /\ second = <<>>

\* no build runs
BuildOff == BuildStart("off")

\* a cached call of the first run
FirstRunCall ==
    \E name \in FunNames, b \in BoundArgs, r \in Results, m \in Mtimes :
        /\ run = "first"
        /\ Len(plan) < MaxBuildCalls
        /\ LET c == caches(db, fs, name, b, r, m)
           IN  /\ db' = c.store
               /\ fs' = c.fs
               /\ plan' = Append(plan, [name |-> name, bound |-> b, result |-> c.result])
        /\ UNCHANGED <<run, second, disk>>
        /\ UNCHANGED notBuild

\* the first run ends: the store is saved
EndFirstRun ==
    /\ run = "first"
    /\ plan # <<>>
    /\ disk' = save(disk, db)
    /\ run' = "saved"
    /\ UNCHANGED <<db, fs, plan, second>>
    /\ UNCHANGED notBuild

\* the second run starts: a new PickleBackend loads the saved store
StartSecondRun ==
    /\ run = "saved"
    /\ db' = load(disk).store
    /\ run' = "second"
    /\ UNCHANGED <<disk, fs, plan, second>>
    /\ UNCHANGED notBuild

\* the second run makes the calls of the first, in the same order
SecondRunCall ==
    \E r \in Results, m \in Mtimes :
        /\ run = "second"
        /\ Len(second) < Len(plan)
        /\ LET k == Len(second) + 1
               c == caches(db, fs, plan[k].name, plan[k].bound, r, m)
           IN  /\ db' = c.store
               /\ fs' = c.fs
               /\ second' = Append(second, [executed |-> c.executed, result |-> c.result])
        /\ UNCHANGED <<run, plan, disk>>
        /\ UNCHANGED notBuild

\* between the two runs the source p is replaced by a byte-different file,
\* whose mtime may or may not differ from the one it had
ReplaceSource ==
    \E m \in Mtimes :
        /\ run = "saved"
        /\ fs["p"].digest = ContentOf("p")
        /\ fs' = [fs EXCEPT !["p"] = [exists |-> TRUE, digest |-> Replaced("p"), mtime |-> m]]
        /\ UNCHANGED <<db, disk, run, plan, second>>
        /\ UNCHANGED notBuild

BuildNext ==
    \/ FirstRunCall
    \/ EndFirstRun
    \/ StartSecondRun
    \/ SecondRunCall

(***************************************************************************)
(* Cached-call miss paths run by several worker threads: each thread goes  *)
(* through steps 4, 5 and 7d-7e of the cached wrapper, one store operation *)
(* at a time; the operations of different threads interleave.              *)
(***************************************************************************)
InMiss(t, pc) == loc[t].op = "miss" /\ loc[t].pc = pc

\* thread t calls the cached wrapper of f with bound arguments b
MissBegin ==
    \E t \in Threads, b \in BoundArgs :
        /\ CanBegin(t)
        /\ loc' = [loc EXCEPT ![t] = [IdleOp EXCEPT !.op = "miss", !.pc = "check",
                       !.name = "f", !.bound = b, !.result = ResultOf(t)]]
        /\ UNCHANGED <<db, ndone>>
        /\ UNCHANGED notConc

\* step 4: find_function, compared with the digest of the function
MissCheck ==
    \E t \in Threads :
        /\ InMiss(t, "check")
        /\ loc' = [loc EXCEPT ![t].pc =
                      IF find_function(db, loc[t].name) # FunDigest(loc[t].name)
                      THEN "purge" ELSE "lookup"]
        /\ UNCHANGED <<db, ndone>>
        /\ UNCHANGED notConc

\* step 4: the digest differed: save_function
MissPurge ==
    \E t \in Threads :
        /\ InMiss(t, "purge")
        /\ db' = save_function(db, loc[t].name, FunDigest(loc[t].name))
        /\ loc' = [loc EXCEPT ![t].pc = "lookup"]
        /\ UNCHANGED ndone
        /\ UNCHANGED notConc

\* step 5: find_call; the call is a miss (not recorded, or a file changed)
MissLookup ==
    \E t \in Threads :
        /\ InMiss(t, "lookup")
        /\ loc' = [loc EXCEPT ![t].id = find_call(db, loc[t].name, loc[t].bound)[1],
                              ![t].pc = "call"]
        /\ UNCHANGED <<db, ndone>>
        /\ UNCHANGED notConc

\* step 7d: save_call gives the effective id
MissSaveCall ==
    \E t \in Threads :
        /\ InMiss(t, "call")
        /\ LET out == save_call(db, loc[t].name, loc[t].id, loc[t].bound, loc[t].result)
           IN  /\ db' = out.store
               /\ IF out.raised
                  THEN Finish(t, [loc[t] EXCEPT !.raised = TRUE])
                  ELSE /\ loc' = [loc EXCEPT ![t].ret = out.ret, ![t].pc = "external"]
                       /\ UNCHANGED ndone
        /\ UNCHANGED notConc

\* step 7e: save_external_files under the effective id
MissSaveExternal ==
    \E t \in Threads :
        /\ InMiss(t, "external")
        /\ db' = save_external_files(db, loc[t].name, loc[t].ret, {"p"}, {"q"},
                                     [x \in {"p", "q"} |-> DigestOf(t)])
        /\ loc' = [loc EXCEPT ![t].pc = "file"]
        /\ UNCHANGED ndone
        /\ UNCHANGED notConc

\* step 7e: save_call_file for the declared source, under the effective id
MissSaveCallFile ==
    \E t \in Threads :
        /\ InMiss(t, "file")
        /\ db' = save_call_file(db, loc[t].ret, loc[t].name, "p", DigestOf(t))
        /\ Finish(t, loc[t])
        /\ UNCHANGED notConc

MissNext ==
    \/ MissBegin
    \/ MissCheck
    \/ MissPurge
    \/ MissLookup
    \/ MissSaveCall
    \/ MissSaveExternal
    \/ MissSaveCallFile

\* the log of a build with one worker or with several; nothing else runs
InitLog == StoreInit /\ DiskInit /\ LogInit /\ SchedOff /\ ConcInit /\ BuildOff /\ MapOff

SpecLog == InitLog /\ [][LogNext]_vars

\* check called from two worker threads, outside any scope
CheckNext ==
    \/ CallCheckLabel
    \/ SetMaxlen
    \/ Write
    \/ WriteLogfile
    \/ WriteStdout

\* one worker thread writes inside and outside log_from_thread scopes,
\* nested or not, while the other writes outside any scope
ScopeEnter == EnterScopeBy("t1")

ScopeExit == ExitScopeBy("t1")

ScopesNext ==
    \/ ScopeEnter
    \/ ScopeExit
    \/ CallWrite
    \/ Write
    \/ LockAcquire
    \/ LockRelease
    \/ WriteLogfile
    \/ WriteStdout

InitCheck == StoreInit /\ DiskInit /\ LogStart(2) /\ SchedOff /\ ConcInit /\ BuildOff /\ MapOff

SpecCheck == InitCheck /\ [][CheckNext]_vars

SpecScopes == InitCheck /\ [][ScopesNext]_vars

\* the initial state of the specifications in which nothing is logged
Init == StoreInit /\ DiskInit /\ LogStart(1) /\ SchedOff /\ ConcInit /\ BuildOff /\ MapOff

\* the log of a build with one worker
SpecLogOne == Init /\ [][LogNext]_vars

\* several worker threads use the store
InitConc == StoreInit /\ DiskInit /\ LogStart(2) /\ SchedOff /\ ConcInit /\ BuildOff /\ MapOff

SpecConc == InitConc /\ [][ConcNext]_vars

\* several worker threads run cached-call miss paths
SpecMiss == InitConc /\ [][MissNext]_vars

\* a build is run twice
InitBuild == StoreInit /\ DiskInit /\ LogStart(1) /\ SchedOff /\ ConcInit /\ BuildStart("first") /\ MapOff

SpecBuild == InitBuild /\ [][BuildNext]_vars

\* a build is run, a source is replaced, the build is run again
EditNext ==
    \/ FirstRunCall
    \/ EndFirstRun
    \/ ReplaceSource
    \/ StartSecondRun
    \/ SecondRunCall

SpecEdit == InitBuild /\ [][EditNext]_vars

\* one map_with_dependencies call on a pool of any size; nothing else runs
InitSched == StoreInit /\ DiskInit /\ PoolInit /\ SchedInit /\ ConcInit /\ BuildOff /\ MapOff

SpecSched == InitSched /\ [][SchedNext]_vars

\* one call of map on a pool of any size
InitMap == StoreInit /\ DiskInit /\ PoolInit /\ SchedOff /\ ConcInit /\ BuildOff /\ MapInit

SpecMap == InitMap /\ [][MapNext]_vars

\* the pool's threads keep running: a step that can be taken is taken
SpecSchedFair == InitSched /\ [][SchedNext]_vars /\ WF_vars(SchedNext)

(***************************************************************************)
(* Spec: bounded runs of the operations that record and purge the data of  *)
(* a function (one bound-argument value, one result and one file digest    *)
(* are enough to populate the relations that save_function purges).        *)
(***************************************************************************)
StoreNext ==
    \/ SaveFunction /\ Budget(MaxOps)
    \/ SaveCallOn(FunNames, {NoId}, {"b1"}, {"r1"}) /\ Budget(MaxOps)
    \/ SaveCallFileOn(CallIds, FunNames, Paths, {"d1"}) /\ Budget(MaxOps)
    \/ SaveExternalFilesOn(FunNames, CallIds, {<<{"p"}, {"q"}>>}, {"d1"}) /\ Budget(MaxOps)

SpecDisk == Init /\ [][DiskNext]_vars

\* saves over whatever interrupted saves left on disk
SpecResave == Init /\ [][ResaveNext]_vars

\* interrupted saves, a damaged <path>, and the startup that follows
SpecCorrupt == Init /\ [][CorruptNext]_vars

\* saves that run to completion, and loads, of a store a build fills
SpecRound == Init /\ [][RoundNext]_vars

Spec == Init /\ [][StoreNext]_vars

(***************************************************************************)
(* SpecCalls: the call lists alone: bounded runs of save_call and the      *)
(* purges, with find_call asked at any moment.                             *)
(***************************************************************************)
CallsNext ==
    \/ SaveFunction /\ Budget(MaxCallOps)
    \/ DeleteFunction /\ Budget(MaxCallOps)
    \/ SaveCall /\ Budget(MaxCallOps)
    \/ FindCall /\ UNCHANGED nops

SpecCalls == Init /\ [][CallsNext]_vars

\* the call lists between purges: save_call with and without an id,
\* save_function and delete_function
IdsNext ==
    \/ SaveFunction /\ Budget(MaxCallOps)
    \/ DeleteFunction /\ Budget(MaxCallOps)
    \/ SaveCallOn(FunNames, CallIds \cup {NoId}, BoundArgs, {"r1"}) /\ Budget(MaxCallOps)

SpecIds == Init /\ [][IdsNext]_vars

(***************************************************************************)
(* SpecFiles: the file records and the call-file entries: bounded runs of  *)
(* save_file, save_call_file, save_external_files and delete_file.         *)
(***************************************************************************)
FilesNext ==
    \/ SaveFile /\ Budget(MaxFileOps)
    \/ SaveCallFileOn({0}, FunNames, Paths, {"d1"}) /\ Budget(MaxFileOps)
    \/ SaveExternalFilesOn({"f"}, {0}, {<<{"p"}, {"q"}>>}, {"d2"}) /\ Budget(MaxFileOps)
    \/ DeleteFile /\ Budget(MaxFileOps)

SpecFiles == Init /\ [][FilesNext]_vars

(***************************************************************************)
(* Claims about the store.                                                 *)
(***************************************************************************)

\* C2: after save_function(name, digest), from any prior store state,
\* find_function(name) is digest, find_call(name, b) is (none, none) for every
\* bound b, the external source and destination sets of every call id of name
\* are empty and find_call_file(i, name, p) is none for every call id i and path p.
C2_SaveFunctionPurges ==
    last.op = "save_function" =>
        /\ find_function(db, last.name) = last.result
        /\ \A b \in BoundArgs : find_call(db, last.name, b) = <<NoId, None>>
        /\ \A i \in CallIds :
              /\ find_external_srcs(db, i, last.name) = {}
              /\ find_external_dsts(db, i, last.name) = {}
              /\ \A p \in Paths : find_call_file(db, i, last.name, p) = None

\* save_function has just purged a function that had a call list, external
\* sets and a call-file entry
C2_Witness ==
    last.op = "save_function" /\ last.had

\* the call list of name in s (empty when name has none)
CallList(s, name) ==
    IF Has(s._function_calls, name) THEN s._function_calls[name] ELSE <<>>

\* C6: find_call(name, bound) returns (i, r) exactly when name's call list holds
\* a pair with bound arguments equal to bound; i is then the lowest such
\* position and r the result stored there; otherwise it returns (none, none);
\* and find_call leaves the store as it was.
C6_FindCall ==
    [][last'.op = "find_call" =>
        LET datas == CallList(db, last'.name)
            i == last'.ret
        IN  /\ db' = db
            /\ (i # NoId) <=> (\E k \in 1 .. Len(datas) : datas[k][1] = last'.bound)
            /\ i # NoId =>
                  /\ i + 1 \in 1 .. Len(datas)
                  /\ datas[i + 1][1] = last'.bound
                  /\ \A k \in 1 .. i : datas[k][1] # last'.bound
                  /\ last'.result = datas[i + 1][2]
            /\ i = NoId => last'.result = None
    ]_vars

\* find_call has answered with the first of two recorded pairs whose bound
\* arguments both equal the query and whose results differ
C6_Witness ==
    /\ last.op = "find_call"
    /\ last.ret = 0
    /\ Len(CallList(db, last.name)) >= 2
    /\ CallList(db, last.name)[2][1] = last.bound
    /\ CallList(db, last.name)[2][2] # last.result

\* positions other than i hold the same pairs in old and new
SameElsewhere(old, new, i) ==
    \A k \in 1 .. Len(old) : k # i + 1 => (k <= Len(new) /\ new[k] = old[k])

\* C7 as stated: with call_id none the pair is appended and the new last
\* position returned, otherwise the pair at call_id is overwritten and call_id
\* returned; the pair at the returned position is (bound, result) and the
\* pairs at the other positions are unchanged.
C7_AsStated ==
    [][(last'.op = "save_call" /\ ~last'.raised) =>
        LET old == CallList(db, last'.name)
            new == CallList(db', last'.name)
            pair == <<last'.bound, last'.result>>
            i == last'.ret
        IN  /\ IF last'.id = NoId
               THEN new = Append(old, pair) /\ i = Len(new) - 1
               ELSE i = last'.id
            /\ i + 1 \in 1 .. Len(new)
            /\ new[i + 1] = pair
            /\ SameElsewhere(old, new, i)
    ]_vars

\* C7 amended: when name has no call list, a new list holding the single
\* pair is created and 0 is returned whatever call_id is; when it has one,
\* call_id none appends and returns the new last position, a call_id inside
\* the list overwrites that position and returns call_id, and a call_id past
\* the end raises and leaves the store unchanged.  Whenever an id i is
\* returned, position i holds (bound, result), the other positions are
\* unchanged and so are the other functions' lists.
C7_SaveCall ==
    [][last'.op = "save_call" =>
        LET hadList == Has(db._function_calls, last'.name)
            old == CallList(db, last'.name)
            new == CallList(db', last'.name)
            pair == <<last'.bound, last'.result>>
            i == last'.ret
        IN  /\ ~hadList => (new = <<pair>> /\ i = 0 /\ ~last'.raised)
            /\ (hadList /\ last'.id = NoId) =>
                  (new = Append(old, pair) /\ i = Len(old) /\ ~last'.raised)
            /\ (hadList /\ last'.id # NoId /\ last'.id < Len(old)) =>
                  (new = [old EXCEPT ![last'.id + 1] = pair] /\ i = last'.id /\ ~last'.raised)
            /\ (hadList /\ last'.id # NoId /\ last'.id >= Len(old)) =>
                  (last'.raised /\ db' = db)
            /\ ~last'.raised =>
                  /\ i + 1 \in 1 .. Len(new)
                  /\ new[i + 1] = pair
                  /\ SameElsewhere(old, new, i)
            /\ \A other \in FunNames \ {last'.name} :
                  /\ Has(db'._function_calls, other) = Has(db._function_calls, other)
                  /\ CallList(db', other) = CallList(db, other)
    ]_vars

\* save_call was given a call id for a function without a call list and
\* returned 0, not the id it was given
C7_Witness ==
    /\ last.op = "save_call"
    /\ last.id > 0
    /\ last.ret = 0
    /\ CallList(db, last.name) = <<(<<last.bound, last.result>>)>>

(***************************************************************************)
(* Claims about the commit protocol.                                       *)
(***************************************************************************)

\* the startup that followed an interrupted save has run load
AfterInterruptedSave == last.op = "load" /\ proc \in {"loaded", "failed"}

\* C1: after an interrupt at any point of save(path), the next startup's
\* load(path) succeeds and yields either the relations that were on disk
\* before the save began or the relations being saved.  (When nothing was on
\* disk before the save, a load that finds nothing is counted as the old state.)
C1_LoadRecovers ==
    AfterInterruptedSave =>
        \/ proc = "loaded" /\ db = Undump(saving)
        \/ proc = "loaded" /\ before.exists /\ db = Undump(before.bytes)
        \/ proc = "failed" /\ ~before.exists /\ ~disk.path.exists

\* C10: after an interrupted commit and a startup whose load succeeded,
\* neither <path>.tmp nor <path>.old is on disk.
C10_NoSiblingsLeft ==
    (AfterInterruptedSave /\ proc = "loaded") =>
        (~disk.tmp.exists /\ ~disk.old.exists)

(***************************************************************************)
(* Claims about the log.                                                   *)
(***************************************************************************)

\* C3: with more than one worker thread, the messages a thread emits at the
\* exit of a log_from_thread scope form one contiguous block of stdout: no
\* output of another thread, however written, lies between two of them.
C3_FlushContiguous ==
    count > 1 =>
        \A i, j \in 1 .. Len(stdout) :
            (i < j /\ stdout[i].t = stdout[j].t /\ stdout[i].f > 0 /\ stdout[i].f = stdout[j].f)
                => \A k \in i .. j : stdout[k].t = stdout[i].t

(***************************************************************************)
(* Claims about the scheduler.                                             *)
(***************************************************************************)

\* C4: in map_with_dependencies, for every pair of inputs (x, y) with y in
\* the transitive closure of depfn from x, workerfn(y) has completed before
\* workerfn(x) begins, under every interleaving of the workers.
C4_DependencyOrder ==
    \A x \in Nodes : tstart[x] > 0 =>
        \A y \in Closure(depfn, x) : tend[y] > 0 /\ tend[y] < tstart[x]

\* workerfn has begun for an input with a chain of two prerequisites, the
\* farther one not among the initial inputs, while another input was worked on
C4_Witness ==
    \E x, y, z \in Nodes :
        /\ y \in depfn[x] /\ z \in depfn[y] /\ z \notin depfn[x]
        /\ z \notin inputs
        /\ tstart[x] > 0
        /\ tstart[z] < tend[y] /\ tstart[y] > tend[z]

(***************************************************************************)
(* Concurrent use of the store (SpecConc).                                 *)
(***************************************************************************)
\* thread t has returned from a save_call(name, none, ...) that did not raise
AppendedBy(t, name) ==
    /\ loc[t].op = "save_call" /\ loc[t].pc = "done"
    /\ loc[t].name = name /\ loc[t].id = NoId

\* both threads are inside, or have just returned from, their first operation,
\* a save_call(name, none, ...): the two calls overlap or follow one another
\* with no other store operation around them
TwoAppends(name) ==
    /\ \A t \in Threads : AppendedBy(t, name) /\ ndone[t] = 1

\* C8: two save_call(name, none, ...) of different threads return distinct
\* ids, and the pair of each is recorded in the call list at the id returned
\* to it, as if the two calls had run one after the other.
C8_DistinctIds ==
    \A name \in FunNames :
        TwoAppends(name) =>
            /\ loc["t1"].ret # loc["t2"].ret
            /\ \A t \in Threads :
                   /\ loc[t].ret + 1 <= Len(CallList(db, name))
                   /\ CallList(db, name)[loc[t].ret + 1] = <<loc[t].bound, loc[t].result>>

\* thread t runs a find_call_file from call to return in this step
Observes(t) ==
    /\ loc[t].pc = "done"
    /\ ndone'[t] = ndone[t] + 1
    /\ loc'[t].op = "find_call_file"

\* C9: save_external_files stores the sets and the digests as one step for
\* the other threads: a find_call_file of a thread never finds no digest for
\* a path that the store holds in the srcs or dsts of that call.
C9_ExternalAtomic ==
    [][\A t \in Threads :
          (Observes(t) /\ loc'[t].result = None) =>
              loc'[t].bound \notin
                  (find_external_srcs(db, loc'[t].id, loc'[t].name)
                   \cup find_external_dsts(db, loc'[t].id, loc'[t].name))]_vars

(***************************************************************************)
(* The build run twice (SpecBuild).                                        *)
(***************************************************************************)
\* C5: in the second run, which loads the store the first run saved, no
\* cached call runs its body, and each returns the result the same call
\* returned in the first run.
C5_SecondRunAllHits ==
    \A k \in 1 .. Len(second) :
        /\ ~second[k].executed
        /\ second[k].result = plan[k].result

\* the second run has repeated a first run of MaxBuildCalls calls, to both
\* procedures and with two different bound arguments for one of them
C5_Witness ==
    /\ run = "second"
    /\ Len(second) = MaxBuildCalls
    /\ \E i, j, k \in 1 .. Len(plan) :
           /\ plan[i].name = "f" /\ plan[j].name = "g"
           /\ plan[k].name = plan[i].name /\ plan[k].bound # plan[i].bound

(***************************************************************************)
(* More claims about the commit protocol (SpecDisk).                       *)
(***************************************************************************)
\* C11: at every point of save, crash points included, <path> when it exists
\* holds the complete dump of the relations that were on disk before the save
\* or of the relations being saved; only <path>.tmp is ever torn.
C11_PathNeverTorn ==
    /\ disk.path.exists =>
          /\ ~disk.path.torn
          /\ \/ disk.path.bytes = saving
             \/ before.exists /\ disk.path.bytes = before.bytes
    /\ ~disk.old.torn

\* a save was interrupted while <path>.tmp was torn, with an earlier, different
\* state in <path>
C11_Witness ==
    /\ proc = "down"
    /\ disk.tmp.exists /\ disk.tmp.torn
    /\ disk.path.exists /\ disk.path.bytes # saving

(***************************************************************************)
(* Claims about the file records (SpecFiles).                              *)
(***************************************************************************)
\* the file record and the call-file entries of path q are the same in s and t
SamePathRecords(s, t, q) ==
    /\ Has(s._files, q) = Has(t._files, q)
    /\ find_file(s, q) = find_file(t, q)
    /\ Has(s._call_files, q) = Has(t._call_files, q)
    /\ \A name \in FunNames, i \in CallIds :
          find_call_file(s, i, name, q) = find_call_file(t, i, name, q)

\* C12: after delete_file(path), find_file(path) is (none, none) and
\* find_call_file(i, name, path) is none for every name and call id; the
\* records of every other path and all function, call and external-file
\* records are as before.
C12_DeleteFile ==
    [][last'.op = "delete_file" =>
          /\ find_file(db', last'.name) = <<None, None>>
          /\ \A name \in FunNames, i \in CallIds :
                find_call_file(db', i, name, last'.name) = None
          /\ \A q \in Paths \ {last'.name} : SamePathRecords(db, db', q)
          /\ db'._functions = db._functions
          /\ db'._function_calls = db._function_calls
          /\ db'._external_srcs = db._external_srcs
          /\ db'._external_dsts = db._external_dsts]_vars

\* delete_file has removed a path that had a file record and call-file
\* entries, while another path has both and external sets are recorded
C12_Witness ==
    /\ last.op = "delete_file" /\ last.had
    /\ \E q \in Paths \ {last.name} : Has(db._files, q) /\ Has(db._call_files, q)
    /\ Has(db._external_srcs, "f")

(***************************************************************************)
(* Failures and cycles in the scheduler (SpecSched, SpecSchedFair).        *)
(***************************************************************************)
\* the inputs whose task has raised
Failed == {x \in Nodes : task[x] = "failed"}

NamesCycle ==
    /\ report # {}
    /\ \A x \in report : x \in Closure([y \in Nodes |-> depfn[y] \cap report], x)

SourceReplaced == fs["p"].digest = Replaced("p")

\* the store the second run loaded
Saved == Undump(disk.path.bytes)

\* the file p now has another mtime than the File record of the saved store
Noticed ==
    /\ SourceReplaced
    /\ Has(Saved._files, "p")
    /\ Saved._files["p"][1] # fs["p"].mtime

\* the k-th call of the plan is the first of the run with its name and bound
FirstTime(k) ==
    \A j \in 1 .. (k - 1) : plan[j].name # plan[k].name \/ plan[j].bound # plan[k].bound

\* the calls of the second run that do not refer to p hit
UnrelatedHit ==
    \A k \in 1 .. Len(second) :
        "p" \notin Srcs(plan[k].name, plan[k].bound) \cup ExtSrcs(plan[k].name, plan[k].bound) =>
            /\ ~second[k].executed
            /\ second[k].result = plan[k].result

\* C15 as stated: once the declared source p has been replaced by a
\* byte-different file, every recorded call that declares p misses on the next
\* run, and every call that does not refer to p hits.
C15_AsStated ==
    SourceReplaced =>
        /\ \A k \in 1 .. Len(second) :
              ("p" \in Srcs(plan[k].name, plan[k].bound) /\ FirstTime(k)) => second[k].executed
        /\ UnrelatedHit

\* C15: once the declared source p has been replaced by a byte-different
\* file whose mtime differs from the recorded one, a recorded call that
\* declares p misses on the next run, once (it is recorded anew and hits when
\* repeated); every call that does not refer to p hits.
C15_InputSensitivity ==
    /\ Noticed =>
          \A k \in 1 .. Len(second) :
              "p" \in Srcs(plan[k].name, plan[k].bound) => (second[k].executed <=> FirstTime(k))
    /\ SourceReplaced => UnrelatedHit

\* after the replacement the second run has made a call that declares p twice
\* and a call that does not refer to p
C15_Witness ==
    /\ Noticed
    /\ run = "second" /\ Len(second) = Len(plan)
    /\ \E i, j, k \in 1 .. Len(second) :
          /\ i < j
          /\ plan[i].name = "f" /\ plan[i].bound = "b1" /\ second[i].executed
          /\ plan[j].name = "f" /\ plan[j].bound = "b1" /\ ~second[j].executed
          /\ plan[k].name = "f" /\ plan[k].bound = "b2" /\ ~second[k].executed

\* C16 as stated: a recorded call that registered p with add_external_src
\* misses on the next run once p alone has been modified.
C16_AsStated ==
    SourceReplaced =>
        \A k \in 1 .. Len(second) :
            ("p" \in ExtSrcs(plan[k].name, plan[k].bound) /\ FirstTime(k)) => second[k].executed

\* C16: a recorded call that registered p with add_external_src misses on the
\* next run once p alone has been modified and its mtime differs from the
\* recorded one.
C16_ExternalSensitivity ==
    Noticed =>
        \A k \in 1 .. Len(second) :
            ("p" \in ExtSrcs(plan[k].name, plan[k].bound) /\ FirstTime(k)) => second[k].executed

\* after the modification the second run has made the call that registered p
C16_Witness ==
    /\ Noticed
    /\ run = "second"
    /\ \E k \in 1 .. Len(second) :
          /\ plan[k].name = "g" /\ plan[k].bound = "b1" /\ second[k].executed

(***************************************************************************)
(* Claims about Log.check and Log._write.                                  *)
(***************************************************************************)
\* C17: the column check pads to, Log.maxlen, never decreases and never
\* exceeds the clip of 40, whatever the calls of check and their interleaving.
C17_MaxlenMonotone ==
    [][maxlen' >= maxlen /\ maxlen' <= MaxlenClip]_vars

\* the position of message e in the sequence q (0 when it is not there);
\* a message is written to a stream at most once
PosIn(e, q) == IF \E j \in 1 .. Len(q) : q[j] = e
               THEN CHOOSE j \in 1 .. Len(q) : q[j] = e
               ELSE 0

\* C18: at every moment the messages written to stdout are, in the same
\* order, among the messages written to the log file.
C18_StdoutInLogfile ==
    /\ \A i \in 1 .. Len(stdout) : PosIn(stdout[i], logfile) > 0
    /\ \A i, j \in 1 .. Len(stdout) :
          i < j => PosIn(stdout[i], logfile) < PosIn(stdout[j], logfile)

\* the messages of thread t that are in the sequence q
Written(t, q) == {q[i].n : i \in {j \in 1 .. Len(q) : q[j].t = t}}

\* C19: with one worker no write is buffered, inside a log_from_thread scope
\* or not: every scope's buffer stays empty, no message reaches the streams
\* through a flush at scope exit, and when a Log call returns all the
\* messages written so far are in the log file.
C19_ImmediateWhenOneWorker ==
    count = 1 =>
        /\ \A t \in Threads : \A i \in 1 .. Len(stacks[t]) : stacks[t][i] = <<>>
        /\ \A i \in 1 .. Len(logfile) : logfile[i].f = 0
        /\ \A i \in 1 .. Len(stdout) : stdout[i].f = 0
        /\ \A t \in Workers(count) : Idle(t) => Written(t, logfile) = 1 .. nmsg[t]

\* with one worker, a write made inside an open log_from_thread scope is
\* being emitted
C19_Witness ==
    /\ count = 1
    /\ stacks["t1"] # <<>>
    /\ At("t1", "logfile")

\* save(path) has run to completion and the store was not touched since
SaveCompleted == last.op = "save" /\ pcSave = "idle"

\* the relations of s all hold something
AllSix(s) ==
    /\ s._functions # EmptyDict
    /\ s._function_calls # EmptyDict
    /\ s._files # EmptyDict
    /\ s._call_files # EmptyDict
    /\ s._external_srcs # EmptyDict
    /\ s._external_dsts # EmptyDict

\* the find_* queries answer the same on s and on t
SameAnswers(s, t) ==
    /\ \A name \in FunNames : find_function(s, name) = find_function(t, name)
    /\ \A name \in FunNames, b \in BoundArgs :
          find_call(s, name, b) = find_call(t, name, b)
    /\ \A p \in Paths : find_file(s, p) = find_file(t, p)
    /\ \A id \in CallIds, name \in FunNames, p \in Paths :
          find_call_file(s, id, name, p) = find_call_file(t, id, name, p)
    /\ \A id \in CallIds, name \in FunNames :
          /\ find_external_srcs(s, id, name) = find_external_srcs(t, id, name)
          /\ find_external_dsts(s, id, name) = find_external_dsts(t, id, name)

C21_MapKeepsOrder ==
    mret.kind = "returned" =>
        /\ Len(mret.value) = Len(items)
        /\ \A k \in Positions : mret.value[k] = F(items[k])

\* map returned the results of different items whose tasks completed in an
\* order other than the input order
C21_Witness ==
    /\ mret.kind = "returned"
    /\ Len(items) >= 2
    /\ items[1] # items[2]
    /\ \E i, j \in 1 .. Len(order) : i < j /\ order[i] > order[j]

\* <path> is there and its bytes cannot be deserialized
Undeserializable == disk.path.exists /\ disk.path.torn

\* C22: a load that finds <path> undeserializable does not raise: it takes
\* the relations of <path>.old when that file is sound, and otherwise
\* deletes <path>, logs a warning and leaves the relations empty.
C22_LoadSurvivesCorruption ==
    [][(Undeserializable /\ last'.op = "load")
          => /\ ~last'.raised
             /\ IF disk.old.exists /\ ~disk.old.torn
                THEN db' = Undump(disk.old.bytes)
                ELSE /\ db' = EmptyDb
                     /\ ~disk'.path.exists
                     /\ logfile' # logfile]_vars

\* thread t is inside _write: about to write the log file, or past that and
\* about to write stdout
InWrite(t) == At(t, "logfile") \/ At(t, "stdout")

\* C23: a thread that is inside _write holds the lock of the Log, so no two
\* threads are inside _write at the same time.
C23_WriteUnderLock ==
    /\ \A t \in Threads : InWrite(t) => lock.owner = t
    /\ \A t, u \in Threads : (InWrite(t) /\ InWrite(u)) => t = u

\* every path with a call-file entry has a file record
HasFileRecords(s) ==
    \A p \in DOMAIN s._call_files :
        (\E name \in DOMAIN s._call_files[p] : s._call_files[p][name] # EmptyDict)
            => Has(s._files, p)

\* the paths the operation that ran last recorded call-file entries for
RecordedPaths(l) ==
    IF l.op = "save_call_file" THEN {l.bound}
    ELSE IF l.op = "save_external_files" THEN l.bound[1] \cup l.bound[2]
    ELSE {}

\* C24 as stated: in every store state that save_call_file,
\* save_external_files, save_file and delete_file reach, every path with a
\* call-file entry has a file record.
C24_AsStated == HasFileRecords(db)

\* C24: the store operations keep "every path with a call-file entry has a
\* file record" when the call-file entries they record are for paths that
\* have a file record already: save_file and delete_file never break it,
\* save_call_file and save_external_files do not break it for such paths.
C24_FileRecordsKept ==
    [][(HasFileRecords(db) /\ \A p \in RecordedPaths(last') : Has(db._files, p))
          => HasFileRecords(db')]_vars

\* call-file entries were recorded for a path that had a file record, and
\* the path's records were later deleted together
C24_Witness ==
    /\ last.op = "delete_file"
    /\ last.had
    /\ HasFileRecords(db)
    /\ db._call_files # EmptyDict

\* the step is a call of the second run that hit
HitStep == Len(second') = Len(second) + 1 /\ ~second'[Len(second')].executed

\* C25: a cached call that hits returns the result recorded for it, does not
\* run the body (no file of the build changes) and leaves the function,
\* function-call, call-file and external-file relations as they were.
C25_HitChangesNothing ==
    [][HitStep =>
          LET k == Len(second')
              fc == find_call(db, plan[k].name, plan[k].bound)
          IN  /\ fc[1] # NoId
              /\ second'[k].result = fc[2]
              /\ fs' = fs
              /\ db'._functions = db._functions
              /\ db'._function_calls = db._function_calls
              /\ db'._call_files = db._call_files
              /\ db'._external_srcs = db._external_srcs
              /\ db'._external_dsts = db._external_dsts]_vars

\* a call of the second run hit on a store that holds records of all kinds
C25_Witness ==
    /\ run = "second"
    /\ \E k \in 1 .. Len(second) : ~second[k].executed
    /\ db._call_files # EmptyDict
    /\ db._external_srcs # EmptyDict

\* no thread is inside a cached call
Quiet == \A t \in Threads : loc[t].pc = "done"

\* the call id i of function name is a position of its recorded call list
IsCall(s, name, i) ==
    /\ Has(s._function_calls, name)
    /\ i >= 0
    /\ i < Len(s._function_calls[name])

\* C26: once the miss paths that worker threads ran have all ended, every
\* (function, call id) of the call-file relation and of the external source
\* and destination maps is a position of that function's call list.
C26_CallIdsExist ==
    Quiet =>
        /\ \A p \in DOMAIN db._call_files : \A name \in DOMAIN db._call_files[p] :
              \A i \in DOMAIN db._call_files[p][name] : IsCall(db, name, i)
        /\ \A name \in DOMAIN db._external_srcs :
              \A i \in DOMAIN db._external_srcs[name] : IsCall(db, name, i)
        /\ \A name \in DOMAIN db._external_dsts :
              \A i \in DOMAIN db._external_dsts[name] : IsCall(db, name, i)

\* the step purges the records of function name
Purges(name) == last'.op \in {"save_function", "delete_function"} /\ last'.name = name

\* the step overwrites the pair of function name at call id i through that id
Overwrites(name, i) ==
    last'.op = "save_call" /\ last'.name = name /\ last'.id = i /\ ~last'.raised

\* C27: a step that does not purge a function leaves its call list at least
\* as long as it was and every recorded pair at its position; only a
\* save_call given the id of a pair replaces that pair.
C27_IdsStable ==
    [][\A name \in FunNames :
          ~Purges(name) =>
              LET old == CallList(db, name)
                  new == CallList(db', name)
              IN  /\ Len(new) >= Len(old)
                  /\ \A k \in 1 .. Len(old) :
                        ~Overwrites(name, k - 1) => new[k] = old[k]
    ]_vars

\* a call was appended behind a recorded pair, which kept its id
C27_Witness ==
    /\ last.op = "save_call"
    /\ last.id = NoId
    /\ last.ret = 1
    /\ Len(CallList(db, last.name)) = 2
    /\ CallList(db, last.name)[1][1] # last.bound

\* how many times message n of thread t is in the sequence q of emitted messages
Emitted(t, n, q) == Cardinality({i \in 1 .. Len(q) : q[i].t = t /\ q[i].n = n})

\* how many times message n is held in the buffers of thread t
Buffered(t, n) ==
    Cardinality({ij \in (1 .. Len(stacks[t])) \X (1 .. MaxMsgs + 1) :
                    /\ ij[2] <= Len(stacks[t][ij[1]])
                    /\ stacks[t][ij[1]][ij[2]][1] = n})

\* the step changes the depth of the buffer stack of thread t only by the
\* push of a scope entry or by the pop of a scope exit
Balanced(t) ==
    \/ Len(stacks'[t]) = Len(stacks[t]) /\ nflush'[t] = nflush[t]
    \/ Len(stacks'[t]) = Len(stacks[t]) + 1 /\ nflush'[t] = nflush[t]
    \/ Len(stacks'[t]) = Len(stacks[t]) - 1 /\ nflush'[t] = nflush[t] + 1

\* C28: between its Log calls and scope exits, every message a thread has
\* written is either in the log file once and in no buffer, or in one of the
\* thread's open buffers once and not in the log file; a thread with no open
\* scope has every message in the log file exactly once.  A scope exit pops
\* exactly the buffer its entry pushed.
C28_NothingLostOrDuplicated ==
    /\ [](\A t \in Threads : Idle(t) =>
            \A n \in 1 .. nmsg[t] : Emitted(t, n, logfile) + Buffered(t, n) = 1)
    /\ [][\A t \in Threads : Balanced(t)]_vars

\* a thread has left a scope in which it had buffered two messages, and the
\* flush is complete
C28_Witness ==
    /\ count = 2
    /\ Idle("t1")
    /\ stacks["t1"] = <<>>
    /\ \E i, j \in 1 .. Len(logfile) :
          /\ i < j
          /\ logfile[i].t = "t1" /\ logfile[j].t = "t1"
          /\ logfile[i].f > 0 /\ logfile[i].f = logfile[j].f

\* C29 as stated: the messages of one thread are in the log file in the
\* order the thread wrote them.
C29_AsStated ==
    \A i, j \in 1 .. Len(logfile) :
        (i < j /\ logfile[i].t = logfile[j].t) => logfile[i].n < logfile[j].n

\* C29: the messages of one thread that were emitted at once are in the log
\* file in the order the thread wrote them, and so are the messages flushed
\* by one scope exit.
C29_OrderWithinBlock ==
    \A i, j \in 1 .. Len(logfile) :
        (i < j /\ logfile[i].t = logfile[j].t /\ logfile[i].f = logfile[j].f)
            => logfile[i].n < logfile[j].n

\* the exit of a scope nested in a scope that is still open has flushed two
\* messages
C29_Witness ==
    /\ count = 2
    /\ Idle("t1")
    /\ Len(stacks["t1"]) = 1
    /\ \E i, j \in 1 .. Len(logfile) :
          /\ i < j
          /\ logfile[i].t = "t1" /\ logfile[j].t = "t1"
          /\ logfile[i].f = 1 /\ logfile[j].f = 1

\* C30: when save(path) has run to completion, <path> holds the relations
\* that were saved and neither <path>.tmp nor <path>.old exists, whatever
\* was on disk when the save began.
C30_CompletedSaveLeavesPathAlone ==
    SaveCompleted =>
        /\ disk.path = File(Dump(db))
        /\ ~disk.tmp.exists
        /\ ~disk.old.exists

\* a save has completed that began with no <path> and with a stale
\* <path>.old on disk
C30_Witness ==
    /\ SaveCompleted
    /\ stale
    /\ ~before.exists
    /\ db # EmptyDb

(***************************************************************************)
(* Termination of map_with_dependencies (SpecSchedFair).                   *)
(***************************************************************************)
\* the inputs of the call and everything depfn leads to from them
Discovered == inputs \cup UNION {Closure(depfn, x) : x \in inputs}

\* workerfn has run for x, once, and has completed
RanOnce(x) == task[x] = "done" /\ 0 < tstart[x] /\ tstart[x] < tend[x]

\* C31: with every task terminating and the pool's threads scheduled fairly,
\* map_with_dependencies ends (it returns or raises) on a pool of any size
\* from one thread up; workerfn never begins a second time for an input; and
\* when the call returns, workerfn has run once for every input and for every
\* prerequisite depfn leads to, those outside the initial list included.
C31_Terminates ==
    /\ <>(outcome # "running")
    /\ [](outcome = "returned" => \A x \in Discovered : RanOnce(x))
    /\ [][\A x \in Nodes : tstart[x] > 0 => tstart'[x] = tstart[x]]_vars

\* on a pool of one thread the call has returned for a single input with a
\* chain of two prerequisites, neither in the initial list
C31_Witness ==
    /\ count = 1
    /\ outcome = "returned"
    /\ \E x, y, z \in Nodes :
          /\ inputs = {x}
          /\ depfn[x] = {y} /\ depfn[y] = {z}
          /\ RanOnce(x) /\ RanOnce(y) /\ RanOnce(z)
          /\ tend[z] < tstart[y] /\ tend[y] < tstart[x]
====
